---- MODULE Spec2Model ----
(***************************************************************************)
(* Model of the AI service's model-lifecycle code:                         *)
(*   - ModelManager (utils/ml_utils.py): get_model, clear_cache,           *)
(*     _update_cache, used by one thread (Spec) and by several threads     *)
(*     (SpecThreads);                                                      *)
(*   - PyTorchService (services/pytorch_service.py): predict and           *)
(*     clear_cache under the service lock (SpecService);                   *)
(*   - circuit_breaker (services/pytorch_service.py) (SpecBreaker).        *)
(***************************************************************************)
EXTENDS Integers, Sequences, FiniteSets, TLC

VARIABLES
    \* ---- ModelManager ----
    _model_cache,      \* dict cache_key -> handle
    _last_accessed,    \* dict cache_key -> timestamp, in insertion order
    _cache_size,       \* byte budget
    cuda_available,    \* torch.cuda.is_available()
    clock,             \* source of torch.cuda.current_timestamp()
    other_allocated,   \* accelerator memory held outside the cache
    max_allocated,     \* torch.cuda.max_memory_allocated()
    nloads,            \* number of models loaded so far
    call,              \* the last ModelManager call and what it did
    \* ---- ModelManager used by several threads ----
    tpc,               \* thread -> position in get_model/_update_cache
    tloc,              \* thread -> local variables of the call
    \* ---- circuit_breaker ----
    max_failures,      \* argument of circuit_breaker
    reset_timeout,     \* argument of circuit_breaker
    failures,          \* nonlocal failures
    last_failure_time, \* nonlocal last_failure_time
    now,               \* time.time()
    failure_log,       \* every wrapped call that raised: when it started and ended
    streak_from,       \* length of failure_log at the last successful call
    bcall,             \* the last call through the breaker
    \* ---- PyTorchService ----
    svc_cache,         \* self._model_cache: model_name -> handle
    _cache_lock,       \* owner of self._cache_lock, or NoThread
    spc,               \* thread -> position in predict/clear_cache
    sloc,              \* thread -> arguments of the running call
    svc_loads,         \* number of load_model calls so far
    predict_failures,  \* predict calls that failed in a row, up to max_failures
    \* ---- PyTorchService.batch_predict ----
    bpc,               \* position in batch_predict
    bloc,              \* locals of batch_predict: batch_size, i, results
    bobs,              \* the last batch_predict call as its caller sees it
    \* ---- ModelManager: what each handle was loaded for ----
    loaded_for,        \* handle id -> <<model_name, model_type>> of its load
    asked_for,         \* <<model_name, model_type>> of the last get_model call
    \* ---- OpenAIService ----
    gcall,             \* the last generate_* call as its caller sees it
    \* ---- AudienceAnalyzer ----
    _cache,            \* cache_key -> timestamp of the stored result
    anow,              \* datetime.now(), in seconds
    acall,             \* the last analyze_audience call as its caller sees it
    \* ---- app.py ----
    areq,              \* the last event of the app and what it answered
    \* ---- package __init__ ----
    _service_lock,         \* the thread that holds the lock, or NoThread
    _initialized_services, \* id of the stored tuple of components, 0 for None
    ipc,                   \* thread -> position in initialize / cleanup
    iloc,                  \* thread -> its call: op, outcome, tuple returned
    built,                 \* number of tuples of components constructed so far
    epoch_built,           \* ... of them since the state was last reset
    returned,              \* tuples returned since the state was last reset
    retired,               \* tuples that cleanup_resources has dropped
    \* ---- normalize_features ----
    ncall                  \* the last normalize_features call and what it scaled

mmVars == <<_model_cache, _last_accessed, _cache_size, cuda_available, clock,
            other_allocated, max_allocated, nloads, call>>
thVars == <<tpc, tloc>>
cbVars == <<max_failures, reset_timeout, failures, last_failure_time, now,
            failure_log, streak_from, bcall>>
svVars == <<svc_cache, _cache_lock, spc, sloc, svc_loads, predict_failures>>
bpVars == <<bpc, bloc, bobs>>
kyVars == <<loaded_for, asked_for>>
oaVars == <<gcall>>
aaVars == <<_cache, anow, acall>>
apVars == <<areq>>
inVars == <<_service_lock, _initialized_services, ipc, iloc, built, epoch_built,
            returned, retired>>
nmVars == <<ncall>>
zVars == <<nmVars>>
yVars == <<oaVars, aaVars, apVars, inVars, zVars>>
xVars == <<kyVars, yVars>>
vars == <<mmVars, thVars, cbVars, svVars, bpVars, xVars>>

----------------------------------------------------------------------------
(* Bounds of the model *)

MaxLoads == 3
MaxClock == 2
MaxTime == 5
MaxLog == 4
MaxServiceLoads == 3
MaxBatchItems == 66
MaxAudienceTime == 91800
MaxBuilt == 2
MaxRows == 4
MaxResident == 6
MaxFeature == 10

(* Inputs *)
MODEL_TYPES == <<"BERT", "GPT", "CUSTOM">>
ModelNames == {"a", "b", "c"}
TypeInputs == {"BERT", "T5"}
Thresholds == {5, 9}          \* memory_threshold in tenths: 0.5, 0.9
Budgets == {2, 3}             \* cache_size of the constructor, in units of memory
OtherAllocations == {0, 1}    \* memory the process holds outside the cache

(* bytes the artifact of model_name takes on the device *)
ArtifactSize(model_name) == IF model_name = "a" THEN 1 ELSE 2

NoHandle == [id |-> 0, size |-> 0]
NoKey == ""
EmptyCache == [k \in {} |-> NoHandle]

----------------------------------------------------------------------------
(* Python dict with insertion order, as a sequence of <<key, value>> *)

DictKeys(d) == {d[i][1] : i \in 1..Len(d)}

DictGet(d, k) == d[CHOOSE i \in 1..Len(d) : d[i][1] = k][2]

DictSet(d, k, v) ==
    IF k \in DictKeys(d)
    THEN [i \in 1..Len(d) |-> IF d[i][1] = k THEN <<k, v>> ELSE d[i]]
    ELSE Append(d, <<k, v>>)

DictDel(d, k) == SelectSeq(d, LAMBDA e : e[1] # k)

(* min(d.items(), key=lambda x: x[1]): the first item with the least value *)
MinItem(d) ==
    d[CHOOSE i \in 1..Len(d) :
        /\ \A j \in 1..Len(d) : d[i][2] <= d[j][2]
        /\ \A j \in 1..(i-1) : d[j][2] > d[i][2]]

MaxItem(d) ==
    d[CHOOSE i \in 1..Len(d) :
        /\ \A j \in 1..Len(d) : d[i][2] >= d[j][2]
        /\ \A j \in 1..(i-1) : d[j][2] < d[i][2]]

MruKey(d) == MaxItem(d)[1]

(* lru_key = min(self._last_accessed.items(), key=lambda x: x[1])[0] *)
LruKey(d) == MinItem(d)[1]

UnsortedItems(d) == d

(* sorted(d.items(), key=lambda x: x[1]): stable, ascending *)
RECURSIVE SortedItems(_)
SortedItems(d) ==
    IF d = <<>> THEN <<>>
    ELSE LET m == MinItem(d) IN <<m>> \o SortedItems(DictDel(d, m[1]))

Take(s, n) == IF n >= Len(s) THEN s ELSE SubSeq(s, 1, n)

CacheDel(c, k) == [x \in DOMAIN c \ {k} |-> c[x]]
CacheSetNothing(c, k, h) == c

CacheSet(c, k, h) == [x \in DOMAIN c \cup {k} |-> IF x = k THEN h ELSE c[x]]

RECURSIVE SumSizes(_, _)
SumSizes(c, ks) ==
    IF ks = {} THEN 0
    ELSE LET k == CHOOSE x \in ks : TRUE IN c[k].size + SumSizes(c, ks \ {k})

(* torch.cuda.memory_allocated() while `inflight` bytes of a model that is  *)
(* loaded but not yet cached are on the device                              *)
MemoryAllocated(c, inflight) == other_allocated + SumSizes(c, DOMAIN c) + inflight

Max(a, b) == IF a >= b THEN a ELSE b

----------------------------------------------------------------------------
(* ModelManager *)

CacheKeyNameOnly(model_name, model_type) == model_name

(* cache_key = f"{model_name}_{model_type}" *)
CacheKey(model_name, model_type) == model_name \o "_" \o model_type

ValidTypeAny(model_type) == TRUE

(* model_type in MODEL_TYPES *)
ValidType(model_type) == \E i \in 1..Len(MODEL_TYPES) : MODEL_TYPES[i] = model_type

CacheHitAlways(c, key, force_reload) == key \in DOMAIN c

CacheHitInverted(c, key, force_reload) == force_reload /\ key \in DOMAIN c

(* the hit test of get_model *)
CacheHit(c, key, force_reload) == ~force_reload /\ key \in DOMAIN c

(* an `if` where the code has a `while` *)
EvictOnce(c, la, inflight, log) ==
    LET mem == MemoryAllocated(c, inflight) IN
    IF mem > _cache_size /\ DOMAIN c # {} /\ la # <<>> /\ LruKey(la) \in DOMAIN c
    THEN [exc |-> "none", cache |-> CacheDel(c, LruKey(la)),
          la |-> DictDel(la, LruKey(la)),
          log |-> Append(log, [key |-> LruKey(la), before |-> la,
                             resident |-> DOMAIN c, mem |-> mem]),
          mem |-> MemoryAllocated(CacheDel(c, LruKey(la)), inflight)]
    ELSE [exc |-> "none", cache |-> c, la |-> la, log |-> log, mem |-> mem]

(* The eviction loop of _update_cache.  Returns the dicts after the loop,   *)
(* the exception that ended it (if any), the last memory reading and a log  *)
(* of the evictions, each with _last_accessed and the reading before it.    *)
RECURSIVE EvictLoop(_, _, _, _)
EvictLoop(c, la, inflight, log) ==
    LET mem == MemoryAllocated(c, inflight) IN
    IF mem > _cache_size /\ DOMAIN c # {}
    THEN IF la = <<>>
         THEN [exc |-> "ValueError", cache |-> c, la |-> la, log |-> log, mem |-> mem]
         ELSE LET lru_key == LruKey(la) IN
              IF lru_key \notin DOMAIN c
              THEN [exc |-> "KeyError", cache |-> c, la |-> la, log |-> log, mem |-> mem]
              ELSE EvictLoop(CacheDel(c, lru_key), DictDel(la, lru_key), inflight,
                             Append(log, [key |-> lru_key, before |-> la,
                                          resident |-> DOMAIN c, mem |-> mem]))
    ELSE [exc |-> "none", cache |-> c, la |-> la, log |-> log, mem |-> mem]

(* the insert records 0 with an accelerator too *)
UpdateCacheStampZero(c, la, cache_key, model, ts) ==
    LET r == IF cuda_available
             THEN EvictLoop(c, la, model.size, <<>>)
             ELSE [exc |-> "none", cache |-> c, la |-> la, log |-> <<>>, mem |-> -1]
    IN IF r.exc # "none" THEN r
       ELSE [exc |-> "none",
             cache |-> CacheSet(r.cache, cache_key, model),
             la |-> DictSet(r.la, cache_key, 0),
             log |-> r.log, mem |-> r.mem]

(* the budget is checked without an accelerator too *)
UpdateCacheHostChecked(c, la, cache_key, model, ts) ==
    LET r == EvictLoop(c, la, model.size, <<>>)
    IN IF r.exc # "none" THEN r
       ELSE [exc |-> "none",
             cache |-> CacheSet(r.cache, cache_key, model),
             la |-> DictSet(r.la, cache_key, IF cuda_available THEN ts ELSE 0),
             log |-> r.log, mem |-> r.mem]

(* _update_cache(cache_key, model) at timestamp ts *)
UpdateCache(c, la, cache_key, model, ts) ==
    LET r == IF cuda_available
             THEN EvictLoop(c, la, model.size, <<>>)
             ELSE [exc |-> "none", cache |-> c, la |-> la, log |-> <<>>, mem |-> -1]
    IN IF r.exc # "none" THEN r
       ELSE [exc |-> "none",
             cache |-> CacheSet(r.cache, cache_key, model),
             la |-> DictSet(r.la, cache_key, IF cuda_available THEN ts ELSE 0),
             log |-> r.log, mem |-> r.mem]

(* a handler that drops the entry whose reload failed *)
LoadErrorInvalidates(c, la, cache_key) ==
    [cache |-> CacheDel(c, cache_key), la |-> DictDel(la, cache_key)]

(* the two dicts after the except clause of get_model: it logs and raises *)
(* again, and the load raised before _update_cache was reached            *)
LoadError(c, la, cache_key) == [cache |-> c, la |-> la]

NoCall == [op |-> "init", key |-> NoKey, model_type |-> "", force_reload |-> FALSE,
           outcome |-> "none", ret |-> NoHandle, loaded |-> FALSE, evictions |-> <<>>,
           reported |-> -1, cleared |-> 0]

(* get_model(model_name, model_type, force_reload); the clock advances by d *)
(* before the call, and the load succeeds or raises.                        *)
GetModel(model_name, model_type, force_reload, d, load_ok) ==
    LET key == CacheKey(model_name, model_type)
        ts == clock + d
        base == [NoCall EXCEPT !.op = "get_model", !.key = key,
                               !.model_type = model_type,
                               !.force_reload = force_reload]
    IN
    /\ ts <= MaxClock
    /\ clock' = ts
    /\ UNCHANGED <<_cache_size, cuda_available, other_allocated>>
    /\ IF ~ValidType(model_type)
       THEN /\ call' = [base EXCEPT !.outcome = "ValueError"]
            /\ UNCHANGED <<_model_cache, _last_accessed, max_allocated, nloads>>
       ELSE IF CacheHit(_model_cache, key, force_reload)
       THEN /\ _last_accessed' = DictSet(_last_accessed, key, ts)
            /\ call' = [base EXCEPT !.outcome = "hit", !.ret = _model_cache[key]]
            /\ UNCHANGED <<_model_cache, max_allocated, nloads>>
       ELSE /\ nloads < MaxLoads
            /\ IF ~load_ok
               THEN LET r == LoadError(_model_cache, _last_accessed, key)
                    IN /\ call' = [base EXCEPT !.outcome = "load_error", !.loaded = TRUE]
                       /\ _model_cache' = r.cache
                       /\ _last_accessed' = r.la
                       /\ UNCHANGED <<max_allocated, nloads>>
               ELSE LET model == [id |-> nloads + 1, size |-> ArtifactSize(model_name)]
                        r == UpdateCache(_model_cache, _last_accessed, key, model, ts)
                    IN /\ nloads' = nloads + 1
                       /\ _model_cache' = r.cache
                       /\ _last_accessed' = r.la
                       /\ max_allocated' =
                            IF cuda_available
                            THEN Max(max_allocated,
                                     MemoryAllocated(_model_cache, model.size))
                            ELSE max_allocated
                       /\ call' = [base EXCEPT
                                     !.outcome = IF r.exc = "none" THEN "loaded" ELSE r.exc,
                                     !.ret = IF r.exc = "none" THEN model ELSE NoHandle,
                                     !.loaded = TRUE,
                                     !.evictions = r.log,
                                     !.reported = r.mem]

RECURSIVE RemoveAll(_, _, _)

(* a partial clear that forgets the second del *)
RemoveAllCacheOnly(c, la, items) ==
    [exc |-> "none", cache |-> [x \in DOMAIN c \ {items[i][1] : i \in 1..Len(items)} |-> c[x]],
     la |-> la]

(* the partial clear of clear_cache: del both entries of each item in turn *)
RemoveAll(c, la, items) ==
    IF items = <<>> THEN [exc |-> "none", cache |-> c, la |-> la]
    ELSE LET k == items[1][1] IN
         IF k \notin DOMAIN c THEN [exc |-> "KeyError", cache |-> c, la |-> la]
         ELSE RemoveAll(CacheDel(c, k), DictDel(la, k), Tail(items))

(* clear_cache(force_clear, memory_threshold), threshold in tenths *)
ClearCache(force_clear, memory_threshold) ==
    LET base == [NoCall EXCEPT !.op = "clear_cache", !.force_reload = force_clear]
        mem == MemoryAllocated(_model_cache, 0)
    IN
    /\ UNCHANGED <<_cache_size, cuda_available, other_allocated, max_allocated,
                   nloads, clock>>
    /\ IF force_clear
       THEN /\ _model_cache' = EmptyCache
            /\ _last_accessed' = <<>>
            /\ call' = [base EXCEPT !.outcome = "cleared",
                                    !.cleared = Cardinality(DOMAIN EmptyCache)]
       ELSE IF cuda_available /\ max_allocated = 0
       THEN /\ call' = [base EXCEPT !.outcome = "ZeroDivisionError"]
            /\ UNCHANGED <<_model_cache, _last_accessed>>
       ELSE IF cuda_available /\ mem * 10 > memory_threshold * max_allocated
       THEN LET models_to_remove ==
                    Take(SortedItems(_last_accessed),
                         Cardinality(DOMAIN _model_cache) \div 2)
                r == RemoveAll(_model_cache, _last_accessed, models_to_remove)
            IN /\ _model_cache' = r.cache
               /\ _last_accessed' = r.la
               /\ call' = [base EXCEPT
                             !.outcome = IF r.exc = "none" THEN "cleared" ELSE r.exc,
                             !.cleared = Len(models_to_remove),
                             !.reported = mem]
       ELSE /\ call' = [base EXCEPT !.outcome = "cleared"]
            /\ UNCHANGED <<_model_cache, _last_accessed>>

----------------------------------------------------------------------------
(* circuit_breaker(max_failures, reset_timeout) around one operation *)

FailureLimits == {2, 3}     \* max_failures
ResetTimeouts == {2, 3}     \* reset_timeout, in units of time
Durations == {0, 1, 2}      \* time the wrapped operation takes

NoFailure == [start |-> -1, end |-> -1]

NoBreakerCall == [outcome |-> "none", at |-> 0, invoked |-> FALSE,
                  failures_before |-> 0, last_failure_before |-> 0,
                  streak |-> 0, last |-> NoFailure]

BreakerOpenNoWindow(current_time) == failures >= max_failures

BreakerOpenOffByOne(current_time) ==
    failures + 1 >= max_failures /\ current_time - last_failure_time < reset_timeout

(* failures >= max_failures and current_time - last_failure_time < reset_timeout *)
BreakerOpen(current_time) ==
    failures >= max_failures /\ current_time - last_failure_time < reset_timeout

OnSuccessKeep(f) == f

(* failures = 0 *)
OnSuccess(f) == 0

(* failures += 1 *)
OnFailure(f) == f + 1

(* a call as its caller sees it: when it was made, whether func ran, how it *)
(* ended, and what came before it: the counter and timestamp the wrapper    *)
(* read, the failures in a row since the last success and the last failure  *)
BreakerCallRecord(outcome, invoked) ==
    [outcome |-> outcome, at |-> now, invoked |-> invoked,
     failures_before |-> failures, last_failure_before |-> last_failure_time,
     streak |-> Len(failure_log) - streak_from,
     last |-> IF failure_log = <<>> THEN NoFailure
              ELSE failure_log[Len(failure_log)]]

(* time.time() moves on between calls *)
TimePasses ==
    /\ now < MaxTime
    /\ now' = now + 1
    /\ UNCHANGED <<max_failures, reset_timeout, failures, last_failure_time,
                   failure_log, streak_from, bcall>>

(* a rejection that counts as the latest failure *)
RejectStampNow(last, current_time) == current_time

(* last_failure_time after a rejected call: the raise comes before the try, *)
(* so the except clause that stamps a failure does not run                  *)
RejectStamp(last, current_time) == last

(* wrapper: the breaker is open, RuntimeError("Circuit breaker is open") *)
BreakerReject ==
    /\ BreakerOpen(now)
    /\ bcall' = BreakerCallRecord("rejected", FALSE)
    /\ last_failure_time' = RejectStamp(last_failure_time, now)
    /\ UNCHANGED <<max_failures, reset_timeout, failures, now,
                   failure_log, streak_from>>

(* wrapper: func runs for dur and returns *)
BreakerSuccess(dur) ==
    /\ ~BreakerOpen(now)
    /\ now + dur <= MaxTime
    /\ now' = now + dur
    /\ failures' = OnSuccess(failures)
    /\ streak_from' = Len(failure_log)
    /\ bcall' = BreakerCallRecord("ok", TRUE)
    /\ UNCHANGED <<max_failures, reset_timeout, last_failure_time, failure_log>>

(* wrapper: func runs for dur and raises *)
BreakerFailure(dur) ==
    /\ ~BreakerOpen(now)
    /\ now + dur <= MaxTime
    /\ Len(failure_log) < MaxLog
    /\ now' = now + dur
    /\ failures' = OnFailure(failures)
    /\ last_failure_time' = now
    /\ failure_log' = Append(failure_log, [start |-> now, end |-> now + dur])
    /\ bcall' = BreakerCallRecord("failed", TRUE)
    /\ UNCHANGED <<max_failures, reset_timeout, streak_from>>

----------------------------------------------------------------------------
(* PyTorchService: predict and clear_cache, one step per statement *)

Threads == {"t1", "t2"}
NoThread == "none"
ServiceModelNames == {"", "m1", "m2"}   \* model_name; "" is the empty name

NoServiceCall == [op |-> "none", model_name |-> NoKey, input_ok |-> TRUE,
                  model |-> NoHandle, outcome |-> "none",
                  hit |-> FALSE,          \* CACHE_HITS.inc() ran
                  load |-> FALSE,         \* load_model was called (and timed)
                  after_failures |-> 0,   \* predict_failures when the call began
                  pass_done |-> FALSE,    \* model(...) ran to its end
                  elapsed |-> -1,         \* seconds the forward pass took
                  result |-> "none"]      \* what predict returns

(* outcomes of predict that come from the load or the inference *)
TransientFailures == {"load_error", "preprocess_error", "inference_error",
                      "TimeoutError"}

Min(a, b) == IF a <= b THEN a ELSE b

InvalidInputNameOnly(input_ok, model_name) == model_name = ""

(* not input_data or not model_name *)
InvalidInput(input_ok, model_name) == ~input_ok \/ model_name = ""

LockFreeAlways(lock) == TRUE

(* threading.Lock: acquire blocks until no thread holds the lock *)
LockFree(lock) == lock = NoThread

(* a lock that is released by hand on the way out, but not on the way an *)
(* exception takes                                                       *)
LeaveWithByHand(t, outcome) == IF outcome \in {"ok", "cleared"} THEN NoThread ELSE t

(* the holder of the lock after thread t has left `with self._cache_lock:` *)
(* with this outcome: __exit__ releases on return and on exception alike   *)
LeaveWith(t, outcome) == NoThread

(* predict is called; monitor_resources takes start_time *)
PredictCall(t, model_name, input_ok) ==
    /\ spc[t] = "idle"
    /\ spc' = [spc EXCEPT ![t] = "p_acquire"]
    /\ sloc' = [sloc EXCEPT ![t] = [NoServiceCall EXCEPT !.op = "predict",
                                       !.model_name = model_name,
                                       !.input_ok = input_ok,
                                       !.after_failures = predict_failures]]
    /\ UNCHANGED <<svc_cache, _cache_lock, svc_loads, predict_failures>>

(* with self._cache_lock: *)
PredictAcquire(t) ==
    /\ spc[t] = "p_acquire"
    /\ LockFree(_cache_lock)
    /\ _cache_lock' = t
    /\ spc' = [spc EXCEPT ![t] = "p_validate"]
    /\ UNCHANGED <<svc_cache, sloc, svc_loads, predict_failures>>

(* if not input_data or not model_name: raise ValueError *)
PredictValidate(t) ==
    /\ spc[t] = "p_validate"
    /\ IF InvalidInput(sloc[t].input_ok, sloc[t].model_name)
       THEN /\ spc' = [spc EXCEPT ![t] = "p_release"]
            /\ sloc' = [sloc EXCEPT ![t].outcome = "ValueError"]
       ELSE /\ spc' = [spc EXCEPT ![t] = "p_lookup"]
            /\ UNCHANGED sloc
    /\ UNCHANGED <<svc_cache, _cache_lock, svc_loads, predict_failures>>

(* if model_name in self._model_cache: model = ...; CACHE_HITS.inc() *)
PredictLookup(t) ==
    /\ spc[t] = "p_lookup"
    /\ IF sloc[t].model_name \in DOMAIN svc_cache
       THEN /\ sloc' = [sloc EXCEPT ![t].model = svc_cache[sloc[t].model_name],
                                   ![t].hit = TRUE]
            /\ spc' = [spc EXCEPT ![t] = "p_preprocess"]
       ELSE /\ spc' = [spc EXCEPT ![t] = "p_load"]
            /\ UNCHANGED sloc
    /\ UNCHANGED <<svc_cache, _cache_lock, svc_loads, predict_failures>>

(* model = load_model(...); self._model_cache[model_name] = model *)
PredictLoad(t, load_ok) ==
    /\ spc[t] = "p_load"
    /\ load_ok => svc_loads < MaxServiceLoads
    /\ IF load_ok
       THEN LET model == [id |-> svc_loads + 1, size |-> 1] IN
            /\ svc_loads' = svc_loads + 1
            /\ svc_cache' = CacheSet(svc_cache, sloc[t].model_name, model)
            /\ sloc' = [sloc EXCEPT ![t].model = model, ![t].load = TRUE]
            /\ spc' = [spc EXCEPT ![t] = "p_preprocess"]
       ELSE /\ sloc' = [sloc EXCEPT ![t].outcome = "load_error", ![t].load = TRUE]
            /\ spc' = [spc EXCEPT ![t] = "p_release"]
            /\ UNCHANGED <<svc_cache, svc_loads>>
    /\ UNCHANGED <<_cache_lock, predict_failures>>

(* preprocessed_input = preprocess_text_data(...) *)
PredictPreprocess(t, ok) ==
    /\ spc[t] = "p_preprocess"
    /\ IF ok
       THEN /\ spc' = [spc EXCEPT ![t] = "p_infer"]
            /\ UNCHANGED sloc
       ELSE /\ sloc' = [sloc EXCEPT ![t].outcome = "preprocess_error"]
            /\ spc' = [spc EXCEPT ![t] = "p_release"]
    /\ UNCHANGED <<svc_cache, _cache_lock, svc_loads, predict_failures>>

INFERENCE_TIMEOUT_SECONDS == 10
Elapsed == {0, INFERENCE_TIMEOUT_SECONDS, INFERENCE_TIMEOUT_SECONDS + 1}

TimedOutAtBound(elapsed) == elapsed >= INFERENCE_TIMEOUT_SECONDS

(* time.time() - start_time > INFERENCE_TIMEOUT_SECONDS *)
TimedOut(elapsed) == elapsed > INFERENCE_TIMEOUT_SECONDS

(* output = model(...), which returns after elapsed seconds or raises; the *)
(* timeout check on the time the finished pass took; the result            *)
PredictInfer(t, pass_ok, elapsed) ==
    /\ spc[t] = "p_infer"
    /\ sloc' = IF ~pass_ok
               THEN [sloc EXCEPT ![t].outcome = "inference_error"]
               ELSE IF TimedOut(elapsed)
               THEN [sloc EXCEPT ![t].outcome = "TimeoutError",
                                 ![t].pass_done = TRUE, ![t].elapsed = elapsed]
               ELSE [sloc EXCEPT ![t].outcome = "ok", ![t].result = "prediction",
                                 ![t].pass_done = TRUE, ![t].elapsed = elapsed]
    /\ spc' = [spc EXCEPT ![t] = "p_release"]
    /\ UNCHANGED <<svc_cache, _cache_lock, svc_loads, predict_failures>>

(* leaving the with block, by return or by exception: the locals are gone, *)
(* the caller has the outcome and has seen one more failure in a row, or   *)
(* the end of the run                                                      *)
PredictRelease(t) ==
    /\ spc[t] = "p_release"
    /\ _cache_lock' = LeaveWith(t, sloc[t].outcome)
    /\ spc' = [spc EXCEPT ![t] = "idle"]
    /\ predict_failures' =
          IF sloc[t].outcome \in TransientFailures
          THEN Min(predict_failures + 1, max_failures)
          ELSE 0
    /\ sloc' = [sloc EXCEPT ![t] = [NoServiceCall EXCEPT !.op = "predict",
                                       !.outcome = sloc[t].outcome]]
    /\ UNCHANGED <<svc_cache, svc_loads>>

(* clear_cache is called *)
ServiceClearCall(t) ==
    /\ spc[t] = "idle"
    /\ spc' = [spc EXCEPT ![t] = "c_acquire"]
    /\ sloc' = [sloc EXCEPT ![t] = [NoServiceCall EXCEPT !.op = "clear_cache"]]
    /\ UNCHANGED <<svc_cache, _cache_lock, svc_loads, predict_failures>>

(* with self._cache_lock: *)
ServiceClearAcquire(t) ==
    /\ spc[t] = "c_acquire"
    /\ LockFree(_cache_lock)
    /\ _cache_lock' = t
    /\ spc' = [spc EXCEPT ![t] = "c_clear"]
    /\ UNCHANGED <<svc_cache, sloc, svc_loads, predict_failures>>

(* self._model_cache.clear() *)
ServiceClear(t) ==
    /\ spc[t] = "c_clear"
    /\ svc_cache' = EmptyCache
    /\ sloc' = [sloc EXCEPT ![t].outcome = "cleared"]
    /\ spc' = [spc EXCEPT ![t] = "c_release"]
    /\ UNCHANGED <<_cache_lock, svc_loads, predict_failures>>

(* leaving the with block *)
ServiceClearRelease(t) ==
    /\ spc[t] = "c_release"
    /\ _cache_lock' = LeaveWith(t, sloc[t].outcome)
    /\ spc' = [spc EXCEPT ![t] = "idle"]
    /\ UNCHANGED <<svc_cache, sloc, svc_loads, predict_failures>>

----------------------------------------------------------------------------
(* PyTorchService.batch_predict, one step per statement of its loop; the   *)
(* predict call of each chunk runs through the steps of predict above.     *)

BATCH_SIZE == 32

BatchThread == "t1"                 \* the thread that calls batch_predict
BatchModelNames == {"", "m1"}       \* model_name; "" is the empty name
BatchLengths == 0..MaxBatchItems    \* len(batch_data)
PredictionShapes == {"per_item", "pooled"}

(* batch_data: a list of len n of items that all differ *)
BatchItems(n) == [k \in 1..n |-> k]

(* what the model computes for item x *)
Prediction(x) == [of |-> x]

(* batch_result['prediction']: one row per item of the chunk in the order  *)
(* of the chunk, or one row for the whole input                            *)
Predictions(batch, shape) ==
    IF shape = "per_item"
    THEN [k \in 1..Len(batch) |-> Prediction(batch[k])]
    ELSE <<Prediction(batch)>>

NoBatchLocals == [batch_size |-> 0, i |-> 0, results |-> <<>>]

NoBatchCall == [model_name |-> NoKey, batch_data |-> <<>>, outcome |-> "none",
                ret |-> <<>>,
                chunks |-> <<>>,           \* every `batch` the loop has sliced
                preprocess_calls |-> 0,    \* calls of preprocess_text_data
                predict_calls |-> 0,       \* calls of self.predict
                per_item |-> TRUE]         \* every predict returned a row per item

EmptyBatchNever(batch_data) == FALSE

(* not batch_data *)
EmptyBatch(batch_data) == batch_data = <<>>

BatchSizeUncapped(n) == n

(* batch_size = min(len(batch_data), BATCH_SIZE) *)
BatchSize(n) == Min(n, BATCH_SIZE)

(* s[i:j] of a list, i and j counted from 0 *)
Slice(seq, i, j) == SubSeq(seq, i + 1, Min(j, Len(seq)))

ExtendFront(results, predictions) == predictions \o results

(* results.extend(predictions) *)
Extend(results, predictions) == results \o predictions

(* [{'prediction': pred} for pred in results] *)
ResultRecords(results) == [k \in 1..Len(results) |-> [prediction |-> results[k]]]

(* batch_predict is called: the test for an empty batch, batch_size, the   *)
(* empty results and the range of the loop                                 *)
BatchPredictCall(model_name, n) ==
    LET batch_data == BatchItems(n)
        base == [NoBatchCall EXCEPT !.model_name = model_name,
                                    !.batch_data = batch_data]
    IN
    /\ bpc = "idle"
    /\ spc[BatchThread] = "idle"
    /\ IF EmptyBatch(batch_data)
       THEN /\ bobs' = [base EXCEPT !.outcome = "ValueError: Empty batch data"]
            /\ UNCHANGED <<bpc, bloc>>
       ELSE IF BatchSize(Len(batch_data)) = 0
       THEN /\ bobs' = [base EXCEPT
                          !.outcome = "ValueError: range() arg 3 must not be zero"]
            /\ UNCHANGED <<bpc, bloc>>
       ELSE /\ bobs' = base
            /\ bloc' = [NoBatchLocals EXCEPT !.batch_size = BatchSize(Len(batch_data))]
            /\ bpc' = "b_loop"
    /\ UNCHANGED svVars

(* one turn of the loop: batch = batch_data[i:i + batch_size], the chunk   *)
(* is preprocessed and self.predict is called with it                      *)
BatchChunk(ok) ==
    LET batch == Slice(bobs.batch_data, bloc.i, bloc.i + bloc.batch_size) IN
    /\ bpc = "b_loop"
    /\ bloc.i < Len(bobs.batch_data)
    /\ IF ok
       THEN /\ bobs' = [bobs EXCEPT !.chunks = Append(@, batch),
                                    !.preprocess_calls = @ + 1,
                                    !.predict_calls = @ + 1]
            /\ bpc' = "b_predict"
            /\ PredictCall(BatchThread, bobs.model_name, TRUE)
            /\ UNCHANGED bloc
       ELSE /\ bobs' = [bobs EXCEPT !.chunks = Append(@, batch),
                                    !.preprocess_calls = @ + 1,
                                    !.outcome = "batch_preprocess_error"]
            /\ bpc' = "idle"
            /\ bloc' = NoBatchLocals
            /\ UNCHANGED svVars

(* self.predict has returned or raised: results.extend(...) and the next i *)
BatchCollect(shape) ==
    /\ bpc = "b_predict"
    /\ spc[BatchThread] = "idle"
    /\ IF sloc[BatchThread].outcome = "ok"
       THEN /\ bloc' = [bloc EXCEPT
                          !.results = Extend(@, Predictions(bobs.chunks[Len(bobs.chunks)],
                                                            shape)),
                          !.i = @ + bloc.batch_size]
            /\ bobs' = [bobs EXCEPT !.per_item = @ /\ shape = "per_item"]
            /\ bpc' = "b_loop"
       ELSE /\ bobs' = [bobs EXCEPT !.outcome = sloc[BatchThread].outcome]
            /\ bloc' = NoBatchLocals
            /\ bpc' = "idle"
    /\ UNCHANGED svVars

(* the range is used up: return [{'prediction': pred} for pred in results] *)
BatchReturn ==
    /\ bpc = "b_loop"
    /\ bloc.i >= Len(bobs.batch_data)
    /\ bobs' = [bobs EXCEPT !.outcome = "ok", !.ret = ResultRecords(bloc.results)]
    /\ bloc' = NoBatchLocals
    /\ bpc' = "idle"
    /\ UNCHANGED svVars

----------------------------------------------------------------------------
(* ModelManager called by several threads, one step per statement.  The    *)
(* class takes no lock, so the steps of different threads interleave.      *)

NoLocals == [model_name |-> "", key |-> NoKey, model |-> NoHandle, lru_key |-> NoKey,
             outcome |-> "none"]

(* models that threads have loaded and hold but have not yet cached *)
InUpdate == {"uc_check", "uc_min", "uc_del_cache", "uc_del_la", "uc_set_cache"}

RECURSIVE InflightBytes(_)
InflightBytes(ts) ==
    IF ts = {} THEN 0
    ELSE LET t == CHOOSE x \in ts : TRUE IN
         (IF tpc[t] \in InUpdate THEN tloc[t].model.size ELSE 0)
         + InflightBytes(ts \ {t})

(* the call ends: its locals are gone, the caller has the outcome *)
Return(t, outcome) ==
    /\ tpc' = [tpc EXCEPT ![t] = "idle"]
    /\ tloc' = [tloc EXCEPT ![t] = [NoLocals EXCEPT !.outcome = outcome]]

Raise(t, exc) == Return(t, exc)

(* get_model: the type check and the hit test (lines 84-89) *)
TGetModel(t, model_name, model_type, force_reload) ==
    LET key == CacheKey(model_name, model_type) IN
    /\ tpc[t] = "idle"
    /\ IF ~ValidType(model_type)
       THEN Raise(t, "ValueError")
       ELSE /\ tloc' = [tloc EXCEPT ![t] = [NoLocals EXCEPT !.model_name = model_name,
                                                           !.key = key]]
            /\ tpc' = [tpc EXCEPT ![t] =
                          IF CacheHit(_model_cache, key, force_reload)
                          THEN "hit_touch" ELSE "load"]
    /\ UNCHANGED mmVars

(* self._last_accessed[cache_key] = torch.cuda.current_timestamp() *)
THitTouch(t) ==
    /\ tpc[t] = "hit_touch"
    /\ _last_accessed' = DictSet(_last_accessed, tloc[t].key, clock)
    /\ tpc' = [tpc EXCEPT ![t] = "hit_return"]
    /\ UNCHANGED <<tloc, _model_cache, _cache_size, cuda_available, clock,
                   other_allocated, max_allocated, nloads, call>>

(* return self._model_cache[cache_key] *)
THitReturn(t) ==
    /\ tpc[t] = "hit_return"
    /\ IF tloc[t].key \in DOMAIN _model_cache
       THEN Return(t, "ok")
       ELSE Raise(t, "KeyError")
    /\ UNCHANGED mmVars

(* the load and model.to(self._device) (lines 94-102) *)
TLoad(t, load_ok) ==
    /\ tpc[t] = "load"
    /\ nloads < MaxLoads
    /\ IF load_ok
       THEN /\ nloads' = nloads + 1
            /\ tloc' = [tloc EXCEPT ![t].model =
                           [id |-> nloads + 1, size |-> ArtifactSize(tloc[t].model_name)]]
            /\ tpc' = [tpc EXCEPT ![t] = "uc_check"]
            /\ max_allocated' =
                 IF cuda_available
                 THEN Max(max_allocated,
                          MemoryAllocated(_model_cache, InflightBytes(Threads))
                          + ArtifactSize(tloc[t].model_name))
                 ELSE max_allocated
       ELSE /\ Raise(t, "load_error")
            /\ UNCHANGED <<nloads, max_allocated>>
    /\ UNCHANGED <<_model_cache, _last_accessed, _cache_size, cuda_available, clock,
                   other_allocated, call>>

(* current_memory = torch.cuda.memory_allocated() and the test of the while *)
TCheck(t) ==
    /\ tpc[t] = "uc_check"
    /\ tpc' = [tpc EXCEPT ![t] =
                  IF /\ cuda_available
                     /\ MemoryAllocated(_model_cache, InflightBytes(Threads)) > _cache_size
                     /\ DOMAIN _model_cache # {}
                  THEN "uc_min" ELSE "uc_set_cache"]
    /\ UNCHANGED <<tloc, mmVars>>

(* lru_key = min(self._last_accessed.items(), key=lambda x: x[1])[0] *)
TMin(t) ==
    /\ tpc[t] = "uc_min"
    /\ IF _last_accessed = <<>>
       THEN Raise(t, "ValueError")
       ELSE /\ tloc' = [tloc EXCEPT ![t].lru_key = LruKey(_last_accessed)]
            /\ tpc' = [tpc EXCEPT ![t] = "uc_del_cache"]
    /\ UNCHANGED mmVars

(* del self._model_cache[lru_key] *)
TDelCache(t) ==
    /\ tpc[t] = "uc_del_cache"
    /\ IF tloc[t].lru_key \in DOMAIN _model_cache
       THEN /\ _model_cache' = CacheDel(_model_cache, tloc[t].lru_key)
            /\ tpc' = [tpc EXCEPT ![t] = "uc_del_la"]
            /\ UNCHANGED tloc
       ELSE /\ Raise(t, "KeyError")
            /\ UNCHANGED _model_cache
    /\ UNCHANGED <<_last_accessed, _cache_size, cuda_available, clock,
                   other_allocated, max_allocated, nloads, call>>

(* del self._last_accessed[lru_key] *)
TDelLa(t) ==
    /\ tpc[t] = "uc_del_la"
    /\ IF tloc[t].lru_key \in DictKeys(_last_accessed)
       THEN /\ _last_accessed' = DictDel(_last_accessed, tloc[t].lru_key)
            /\ tpc' = [tpc EXCEPT ![t] = "uc_check"]
            /\ UNCHANGED tloc
       ELSE /\ Raise(t, "KeyError")
            /\ UNCHANGED _last_accessed
    /\ UNCHANGED <<_model_cache, _cache_size, cuda_available, clock,
                   other_allocated, max_allocated, nloads, call>>

(* self._model_cache[cache_key] = model *)
TSetCache(t) ==
    /\ tpc[t] = "uc_set_cache"
    /\ _model_cache' = CacheSet(_model_cache, tloc[t].key, tloc[t].model)
    /\ tpc' = [tpc EXCEPT ![t] = "uc_set_la"]
    /\ UNCHANGED <<tloc, _last_accessed, _cache_size, cuda_available, clock,
                   other_allocated, max_allocated, nloads, call>>

(* self._last_accessed[cache_key] = timestamp, or 0 without an accelerator *)
TSetLa(t) ==
    /\ tpc[t] = "uc_set_la"
    /\ _last_accessed' = DictSet(_last_accessed, tloc[t].key,
                                 IF cuda_available THEN clock ELSE 0)
    /\ Return(t, "ok")
    /\ UNCHANGED <<_model_cache, _cache_size, cuda_available, clock,
                   other_allocated, max_allocated, nloads, call>>

(* clear_cache(force_clear=True) is called *)
TClearCall(t) ==
    /\ tpc[t] = "idle"
    /\ tpc' = [tpc EXCEPT ![t] = "cc_cache"]
    /\ tloc' = [tloc EXCEPT ![t] = NoLocals]
    /\ UNCHANGED mmVars

(* self._model_cache.clear() *)
TClearCache(t) ==
    /\ tpc[t] = "cc_cache"
    /\ _model_cache' = EmptyCache
    /\ tpc' = [tpc EXCEPT ![t] = "cc_la"]
    /\ UNCHANGED <<tloc, _last_accessed, _cache_size, cuda_available, clock,
                   other_allocated, max_allocated, nloads, call>>

(* self._last_accessed.clear() and the return *)
TClearLa(t) ==
    /\ tpc[t] = "cc_la"
    /\ _last_accessed' = <<>>
    /\ Return(t, "ok")
    /\ UNCHANGED <<_model_cache, _cache_size, cuda_available, clock,
                   other_allocated, max_allocated, nloads, call>>

(* the timestamp source moves on *)
TClock ==
    /\ clock < MaxClock
    /\ clock' = clock + 1
    /\ UNCHANGED <<tpc, tloc, _model_cache, _last_accessed, _cache_size, cuda_available,
                   other_allocated, max_allocated, nloads, call>>

----------------------------------------------------------------------------
(* OpenAIService.generate_campaign_structure and generate_ad_creative with  *)
(* their decorators.  An argument is None or a dict, a dict is the set of   *)
(* its keys; the keyword arguments are a dict from names to values.         *)

MAX_RETRIES == 3

NoneValue == [kind |-> "none", keys |-> {}]
DictValue(keys) == [kind |-> "dict", keys |-> keys]

(* required_fields of validate_input *)
RequiredFields == {"platform", "objective", "target_audience"}

(* the fields of CAMPAIGN_PROMPT_TEMPLATE and CREATIVE_PROMPT_TEMPLATE *)
CampaignTemplateFields ==
    {"platform", "objective", "target_audience", "budget", "industry", "metrics"}
CreativeTemplateFields ==
    {"objective", "audience", "platform", "performance_metrics",
     "brand_guidelines", "creative_type"}

(* what the hosted API does with one request *)
TransientErrors == {"APIError", "APIConnectionError"}
Answers == TransientErrors \cup {"valid", "not_json", "missing_field"}

(* the parameters of the two functions after self *)
Parameters(fn) ==
    IF fn = "generate_campaign_structure"
    THEN <<"campaign_params">>
    ELSE <<"creative_params", "performance_data">>

(* params = args[1] if len(args) > 1 else kwargs, where args does not *)
(* hold self                                                          *)
ValidatedParams(args, kwargs) ==
    IF Len(args) > 1 THEN args[2] ELSE DictValue(DictKeys(kwargs))

(* validate_input: the exception it raises, or "none" *)
ValidateInput(args, kwargs) ==
    LET params == ValidatedParams(args, kwargs) IN
    IF params.kind # "dict"
    THEN "ValueError: Input parameters must be a dictionary"
    ELSE IF ~(RequiredFields \subseteq params.keys)
    THEN "ValueError: Missing required fields"
    ELSE "none"

(* Python binds the arguments to the parameters of fn *)
BindOk(fn, args, kwargs) ==
    LET ps == Parameters(fn) IN
    /\ Len(args) <= Len(ps)
    /\ \A n \in DictKeys(kwargs) : \E i \in 1..Len(ps) : ps[i] = n /\ i > Len(args)
    /\ Len(args) >= 1 \/ ps[1] \in DictKeys(kwargs)

(* the value of the i-th parameter; performance_data defaults to None *)
Argument(fn, args, kwargs, i) ==
    LET ps == Parameters(fn) IN
    IF i <= Len(args) THEN args[i]
    ELSE IF ps[i] \in DictKeys(kwargs) THEN DictGet(kwargs, ps[i])
    ELSE NoneValue

(* the prompt is formatted: the exception of template.format, or "none" *)
FormatPrompt(fn, args, kwargs) ==
    LET first == Argument(fn, args, kwargs, 1) IN
    IF first.kind # "dict" THEN "TypeError"
    ELSE IF fn = "generate_campaign_structure"
    THEN IF CampaignTemplateFields \subseteq first.keys THEN "none" ELSE "KeyError"
    ELSE LET performance_data == Argument(fn, args, kwargs, 2)
             prompt_params ==
                 IF performance_data.kind = "dict" /\ performance_data.keys # {}
                 THEN first.keys \cup {"performance_metrics"}
                 ELSE first.keys
         IN IF CreativeTemplateFields \subseteq prompt_params THEN "none" ELSE "KeyError"

StopAfterOneMore(attempt_number) == attempt_number > MAX_RETRIES

(* stop_after_attempt(MAX_RETRIES) *)
StopAfterAttempt(attempt_number) == attempt_number >= MAX_RETRIES

(* The attempts of the retry decorator from attempt_number on: the body of *)
(* the function runs, the API answers answers[attempt_number], and an API  *)
(* error is retried until stop_after_attempt says stop.                    *)
RECURSIVE Attempts(_, _, _, _, _, _)
Attempts(fn, args, kwargs, answers, attempt_number, responses) ==
    LET done(outcome, rs) ==
            [outcome |-> outcome, attempts |-> attempt_number, responses |-> rs]
        exc == FormatPrompt(fn, args, kwargs)
        answer == answers[attempt_number]
        rs == Append(responses, answer)
    IN IF ~BindOk(fn, args, kwargs) THEN done("TypeError", responses)
       ELSE IF exc # "none" THEN done(exc, responses)
       ELSE IF answer = "valid" THEN done("ok", rs)
       ELSE IF answer = "not_json"
       THEN done("ValueError: Invalid API response format", rs)
       ELSE IF answer = "missing_field"
       THEN done("ValueError: Generated content is invalid", rs)
       ELSE IF StopAfterAttempt(attempt_number) THEN done("RetryError", rs)
       ELSE Attempts(fn, args, kwargs, answers, attempt_number + 1, rs)

(* one call of a generate_* function: monitor_performance, validate_input, *)
(* retry, body                                                             *)
Generate(fn, args, kwargs, answers) ==
    LET exc == ValidateInput(args, kwargs) IN
    IF exc # "none"
    THEN [outcome |-> exc, attempts |-> 0, responses |-> <<>>]
    ELSE Attempts(fn, args, kwargs, answers, 1, <<>>)

NoGenCall == [fn |-> "none", args |-> <<>>, kwargs |-> <<>>,
              outcome |-> "none", attempts |-> 0, responses |-> <<>>]

(* await openai_service.generate_*(...) while the API gives these answers *)
GenerateCall(fn, args, kwargs, answers) ==
    LET r == Generate(fn, args, kwargs, answers) IN
    gcall' = [fn |-> fn, args |-> args, kwargs |-> kwargs, outcome |-> r.outcome,
              attempts |-> r.attempts, responses |-> r.responses]

----------------------------------------------------------------------------
(* AudienceAnalyzer.analyze_audience and its result cache.  A cache entry  *)
(* is the time it was stored at; times are seconds.                        *)

CACHE_TTL == 3600
SecondsPerDay == 86400

AudienceKeys == {"k1", "k2"}        \* cache_key of the audience data
TimeSteps == {0, 1800, 3600, 5400, 86400}   \* time between two calls

NoResults == [k \in {} |-> 0]

(* timedelta.seconds of a difference that is not negative: the seconds *)
(* within the last day of it                                           *)
Seconds(delta) == delta % SecondsPerDay

(* the hit test of analyze_audience *)
Fresh(cache, cache_key, current_time) ==
    /\ cache_key \in DOMAIN cache
    /\ Seconds(current_time - cache[cache_key]) < CACHE_TTL

(* _cleanup_cache *)
CleanupCache(cache, current_time) ==
    LET expired_keys == {k \in DOMAIN cache :
                            Seconds(current_time - cache[k]) > CACHE_TTL}
    IN [k \in DOMAIN cache \ expired_keys |-> cache[k]]

NoAudienceCall == [op |-> "none", key |-> NoKey, outcome |-> "none", age |-> -1]

(* analyze_audience for the data with this cache key, step seconds after   *)
(* the call before; the analysis (preprocessing, embeddings, segmentation, *)
(* insights) returns or raises                                             *)
AnalyzeAudience(cache_key, step, analysis_ok) ==
    LET t == anow + step
        rec == [op |-> "analyze_audience", key |-> cache_key, outcome |-> "none",
                age |-> IF cache_key \in DOMAIN _cache THEN t - _cache[cache_key]
                        ELSE -1]
    IN
    /\ t <= MaxAudienceTime
    /\ anow' = t
    /\ IF Fresh(_cache, cache_key, t)
       THEN /\ acall' = [rec EXCEPT !.outcome = "cached"]
            /\ UNCHANGED _cache
       ELSE IF ~analysis_ok
       THEN /\ acall' = [rec EXCEPT !.outcome = "error"]
            /\ UNCHANGED _cache
       ELSE /\ acall' = [rec EXCEPT !.outcome = "computed"]
            /\ _cache' = CleanupCache(CacheSet(_cache, cache_key, t), t)

----------------------------------------------------------------------------
(* app.py: health_check and shutdown_event on the module's openai_service  *)
(* and pytorch_service.  A dict argument of predict is the set of its keys. *)

(* One call of PyTorchService.predict by a caller that finds the lock free: *)
(* the outcome, the cache after it and the number of models loaded.         *)
PredictOnce(cache, model_name, input_data, prediction_config, load_ok, preprocess_ok, pass_ok, elapsed) ==
    LET end(outcome, c, n) == [outcome |-> outcome, cache |-> c, loaded |-> n]
        hit == model_name \in DOMAIN cache
        model == [id |-> svc_loads + 1, size |-> 1]
        c == IF hit THEN cache ELSE CacheSet(cache, model_name, model)
        n == IF hit THEN 0 ELSE 1
    IN IF InvalidInput(input_data # {}, model_name) THEN end("ValueError", cache, 0)
       ELSE IF ~hit /\ ~({"model_path", "model_config"} \subseteq prediction_config)
       THEN end("KeyError", cache, 0)
       ELSE IF ~hit /\ ~load_ok THEN end("load_error", cache, 0)
       ELSE IF "text" \notin input_data THEN end("KeyError", c, n)
       ELSE IF ~preprocess_ok THEN end("preprocess_error", c, n)
       ELSE IF ~pass_ok THEN end("inference_error", c, n)
       ELSE IF TimedOut(elapsed) THEN end("TimeoutError", c, n)
       ELSE end("ok", c, n)

NoAppEvent == [op |-> "none", status |-> 0, raised |-> "none",
               config_ok |-> FALSE, generation_ok |-> FALSE, inference_ok |-> FALSE,
               close_raised |-> FALSE, clear_attempted |-> FALSE]

(* some code of the process calls pytorch_service.predict *)
AppPredict(model_name, input_data, prediction_config, load_ok) ==
    LET r == PredictOnce(svc_cache, model_name, input_data, prediction_config,
                         load_ok, TRUE, TRUE, 0)
    IN /\ LockFree(_cache_lock)
       /\ svc_loads + r.loaded <= MaxServiceLoads
       /\ svc_cache' = r.cache
       /\ svc_loads' = svc_loads + r.loaded
       /\ areq' = [NoAppEvent EXCEPT !.op = "predict",
                                     !.raised = IF r.outcome = "ok" THEN "none"
                                                ELSE r.outcome]
       /\ UNCHANGED <<_cache_lock, spc, sloc, predict_failures, gcall>>

(* health_check.  The configuration is valid or not, the hosted API gives  *)
(* these answers, and the inference service can or cannot load, preprocess *)
(* and run a model.                                                        *)
HealthCheck(config_ok, answers, load_ok, preprocess_ok, pass_ok) ==
    LET probe == [args |-> <<DictValue({"test"})>>, kwargs |-> <<>>]
        g == Generate("generate_campaign_structure", probe.args, probe.kwargs, answers)
        r == PredictOnce(svc_cache, "test_model", {"test"}, {"test"},
                         load_ok, preprocess_ok, pass_ok, 0)
        ev == [NoAppEvent EXCEPT !.op = "health_check",
                  !.config_ok = config_ok,
                  !.generation_ok = \A i \in DOMAIN answers : answers[i] = "valid",
                  !.inference_ok = load_ok /\ preprocess_ok /\ pass_ok]
    IN
    /\ LockFree(_cache_lock)
    /\ UNCHANGED <<_cache_lock, spc, sloc, predict_failures>>
    /\ IF ~config_ok
       THEN /\ areq' = [ev EXCEPT !.status = 503, !.raised = "config"]
            /\ UNCHANGED <<gcall, svc_cache, svc_loads>>
       ELSE /\ GenerateCall("generate_campaign_structure", probe.args, probe.kwargs,
                            answers)
            /\ IF g.outcome # "ok"
               THEN /\ areq' = [ev EXCEPT !.status = 503, !.raised = "generation"]
                    /\ UNCHANGED <<svc_cache, svc_loads>>
               ELSE /\ svc_loads + r.loaded <= MaxServiceLoads
                    /\ svc_cache' = r.cache
                    /\ svc_loads' = svc_loads + r.loaded
                    /\ areq' = IF r.outcome # "ok"
                               THEN [ev EXCEPT !.status = 503, !.raised = "inference"]
                               ELSE [ev EXCEPT !.status = 200]

(* shutdown_event: one try block around close() and clear_cache() *)
ShutdownEvent(close_ok) ==
    /\ LockFree(_cache_lock)
    /\ svc_cache' = IF close_ok THEN EmptyCache ELSE svc_cache
    /\ areq' = [NoAppEvent EXCEPT !.op = "shutdown",
                                  !.close_raised = ~close_ok,
                                  !.clear_attempted = close_ok]
    /\ UNCHANGED <<_cache_lock, spc, sloc, svc_loads, predict_failures, gcall>>

----------------------------------------------------------------------------
(* initialize_ai_service and cleanup_resources of the package, one step    *)
(* per block of statements inside `with _service_lock:`.  A tuple of       *)
(* components is the number of its construction.                           *)

NoPackageCall == [op |-> "none", has_log_dir |-> FALSE, outcome |-> "none", ret |-> 0]

(* initialize_ai_service(config_override, force_gpu) is called; only a    *)
(* config_override with LOG_DIR gives the configuration a LOG_DIR         *)
InitializeCall(t, has_log_dir) ==
    /\ ipc[t] = "idle"
    /\ ipc' = [ipc EXCEPT ![t] = "i_lock"]
    /\ iloc' = [iloc EXCEPT ![t] = [NoPackageCall EXCEPT !.op = "initialize",
                                       !.has_log_dir = has_log_dir]]
    /\ UNCHANGED <<_service_lock, _initialized_services, built, epoch_built,
                   returned, retired>>

(* with _service_lock: *)
InitializeAcquire(t) ==
    /\ ipc[t] = "i_lock"
    /\ LockFree(_service_lock)
    /\ _service_lock' = t
    /\ ipc' = [ipc EXCEPT ![t] = "i_check"]
    /\ UNCHANGED <<_initialized_services, iloc, built, epoch_built, returned, retired>>

(* if _initialized_services is not None: return _initialized_services *)
InitializeCheck(t) ==
    /\ ipc[t] = "i_check"
    /\ IF _initialized_services # 0
       THEN /\ iloc' = [iloc EXCEPT ![t].outcome = "returned",
                                   ![t].ret = _initialized_services]
            /\ ipc' = [ipc EXCEPT ![t] = "i_release"]
       ELSE /\ ipc' = [ipc EXCEPT ![t] = "i_config"]
            /\ UNCHANGED iloc
    /\ UNCHANGED <<_service_lock, _initialized_services, built, epoch_built,
                   returned, retired>>

(* the configuration is built and validated and logging is configured:    *)
(* config.LOG_DIR is read; an exception here reaches the handler before   *)
(* logger is bound                                                        *)
InitializeConfigure(t, config_ok) ==
    /\ ipc[t] = "i_config"
    /\ IF config_ok /\ iloc[t].has_log_dir
       THEN /\ ipc' = [ipc EXCEPT ![t] = "i_construct"]
            /\ UNCHANGED iloc
       ELSE /\ iloc' = [iloc EXCEPT ![t].outcome = "UnboundLocalError"]
            /\ ipc' = [ipc EXCEPT ![t] = "i_release"]
    /\ UNCHANGED <<_service_lock, _initialized_services, built, epoch_built,
                   returned, retired>>

(* the services and the three components are constructed and the tuple is *)
(* stored, or a constructor raises and the handler raises RuntimeError    *)
InitializeConstruct(t, construct_ok) ==
    /\ ipc[t] = "i_construct"
    /\ IF construct_ok
       THEN /\ built < MaxBuilt
            /\ built' = built + 1
            /\ epoch_built' = epoch_built + 1
            /\ _initialized_services' = built + 1
            /\ iloc' = [iloc EXCEPT ![t].outcome = "returned", ![t].ret = built + 1]
       ELSE /\ iloc' = [iloc EXCEPT ![t].outcome = "RuntimeError"]
            /\ UNCHANGED <<built, epoch_built, _initialized_services>>
    /\ ipc' = [ipc EXCEPT ![t] = "i_release"]
    /\ UNCHANGED <<_service_lock, returned, retired>>

(* the with block is left by return or by the exception *)
InitializeRelease(t) ==
    /\ ipc[t] = "i_release"
    /\ _service_lock' = NoThread
    /\ ipc' = [ipc EXCEPT ![t] = "idle"]
    /\ returned' = IF iloc[t].outcome = "returned"
                   THEN returned \cup {iloc[t].ret} ELSE returned
    /\ UNCHANGED <<_initialized_services, iloc, built, epoch_built, retired>>

(* cleanup_resources() is called *)
CleanupCall(t) ==
    /\ ipc[t] = "idle"
    /\ ipc' = [ipc EXCEPT ![t] = "c_lock"]
    /\ iloc' = [iloc EXCEPT ![t] = [NoPackageCall EXCEPT !.op = "cleanup"]]
    /\ UNCHANGED <<_service_lock, _initialized_services, built, epoch_built,
                   returned, retired>>

(* with _service_lock: *)
CleanupAcquire(t) ==
    /\ ipc[t] = "c_lock"
    /\ LockFree(_service_lock)
    /\ _service_lock' = t
    /\ ipc' = [ipc EXCEPT ![t] = "c_reset"]
    /\ UNCHANGED <<_initialized_services, iloc, built, epoch_built, returned, retired>>

(* if _initialized_services is None: return; no component has a           *)
(* cleanup_resources method; _initialized_services = None                 *)
CleanupReset(t) ==
    /\ ipc[t] = "c_reset"
    /\ IF _initialized_services = 0
       THEN UNCHANGED <<_initialized_services, epoch_built, returned, retired>>
       ELSE /\ _initialized_services' = 0
            /\ retired' = retired \cup {_initialized_services}
            /\ epoch_built' = 0
            /\ returned' = {}
    /\ iloc' = [iloc EXCEPT ![t].outcome = "returned"]
    /\ ipc' = [ipc EXCEPT ![t] = "c_release"]
    /\ UNCHANGED <<_service_lock, built>>

CleanupRelease(t) ==
    /\ ipc[t] = "c_release"
    /\ _service_lock' = NoThread
    /\ ipc' = [ipc EXCEPT ![t] = "idle"]
    /\ UNCHANGED <<_initialized_services, iloc, built, epoch_built, returned, retired>>

----------------------------------------------------------------------------
(* normalize_features on one column.  The column is a sequence of whole     *)
(* numbers held in a float or an integer array; the array handed to the     *)
(* scaler is kept in halves (2 stands for 1.0, 1 for 0.5), since the median *)
(* of an even number of whole numbers can end in .5.                        *)

ScalingMethods == {"robust", "standard", "minmax"}

RECURSIVE SumSeq(_)
SumSeq(xs) == IF xs = <<>> THEN 0 ELSE xs[1] + SumSeq(Tail(xs))

Abs(x) == IF x < 0 THEN -x ELSE x
Sign(x) == IF x < 0 THEN -1 ELSE IF x > 0 THEN 1 ELSE 0

(* np.sort of a column *)
RECURSIVE SortValues(_)
SortValues(xs) ==
    IF xs = <<>> THEN <<>>
    ELSE LET i == CHOOSE i \in 1..Len(xs) : \A j \in 1..Len(xs) : xs[i] <= xs[j]
         IN <<xs[i]>> \o SortValues([j \in 1..(Len(xs) - 1) |->
                                        IF j < i THEN xs[j] ELSE xs[j + 1]])

(* np.median(np.abs(features), axis=0), in halves *)
MedianAbsHalves(xs) ==
    LET sorted == SortValues([i \in 1..Len(xs) |-> Abs(xs[i])])
        n == Len(xs)
    IN IF n % 2 = 1 THEN 2 * sorted[(n + 1) \div 2]
       ELSE sorted[n \div 2] + sorted[n \div 2 + 1]

(* z_scores > outlier_threshold at position i, with                        *)
(* z_scores = |features - mean| / std; a column without spread gives 0/0,  *)
(* which is not greater than anything                                      *)
ZScoreExceeds(xs, i, outlier_threshold) ==
    LET n == Len(xs)
        total == SumSeq(xs)
        squares == SumSeq([j \in 1..n |-> xs[j] * xs[j]])
        spread == n * squares - total * total
        deviation == n * xs[i] - total
    IN /\ spread > 0
       /\ deviation * deviation > outlier_threshold * outlier_threshold * spread

(* a float stored into an array of this dtype: an integer array drops the *)
(* fraction                                                               *)
StoreHalves(dtype, halves) ==
    IF dtype = "float" THEN halves
    ELSE 2 * Sign(halves) * (Abs(halves) \div 2)

(* the array that reaches scaler.fit_transform *)
ClippedColumn(xs, dtype, outlier_threshold) ==
    [i \in 1..Len(xs) |->
        IF ZScoreExceeds(xs, i, outlier_threshold)
        THEN StoreHalves(dtype, Sign(xs[i]) * MedianAbsHalves(xs))
        ELSE 2 * xs[i]]

NoNormalizeCall == [op |-> "none", features |-> <<>>, dtype |-> "float",
                    scaling_method |-> "", outlier_threshold |-> 0,
                    outcome |-> "none", scaled |-> <<>>]

(* normalize_features(features, scaling_method, outlier_threshold) *)
NormalizeFeatures(features, dtype, scaling_method, outlier_threshold) ==
    LET rec == [NoNormalizeCall EXCEPT !.op = "normalize_features",
                   !.features = features, !.dtype = dtype,
                   !.scaling_method = scaling_method,
                   !.outlier_threshold = outlier_threshold]
    IN ncall' =
         IF scaling_method \notin ScalingMethods
         THEN [rec EXCEPT !.outcome = "ValueError"]
         ELSE IF scaling_method = "robust"
         THEN [rec EXCEPT !.outcome = "ok",
                          !.scaled = ClippedColumn(features, dtype, outlier_threshold)]
         ELSE [rec EXCEPT !.outcome = "ok",
                          !.scaled = [i \in 1..Len(features) |-> 2 * features[i]]]

----------------------------------------------------------------------------
(* One thread using a ModelManager *)

IdleThreads ==
    /\ tpc = [t \in Threads |-> "idle"]
    /\ tloc = [t \in Threads |-> NoLocals]

IdleBreaker ==
    /\ max_failures = 3
    /\ reset_timeout = 300
    /\ failures = 0
    /\ last_failure_time = 0
    /\ now = 0
    /\ failure_log = <<>>
    /\ streak_from = 0
    /\ bcall = NoBreakerCall

(* PyTorchService.__init__ *)
IdleService ==
    /\ svc_cache = EmptyCache
    /\ _cache_lock = NoThread
    /\ spc = [t \in Threads |-> "idle"]
    /\ sloc = [t \in Threads |-> NoServiceCall]
    /\ svc_loads = 0
    /\ predict_failures = 0

(* no batch_predict call yet *)
IdleBatch ==
    /\ bpc = "idle"
    /\ bloc = NoBatchLocals
    /\ bobs = NoBatchCall

(* no handle loaded yet *)
IdleKeys == loaded_for = <<>> /\ asked_for = <<NoKey, NoKey>>

(* no generate_* call yet *)
IdleGeneration == gcall = NoGenCall

(* AudienceAnalyzer.__init__ *)
IdleAudience == _cache = NoResults /\ anow = 0 /\ acall = NoAudienceCall

(* app.py is imported: no request yet *)
IdleApp == areq = NoAppEvent

(* the package is imported: _initialized_services = None *)
IdlePackage ==
    /\ _service_lock = NoThread
    /\ _initialized_services = 0
    /\ ipc = [t \in Threads |-> "idle"]
    /\ iloc = [t \in Threads |-> NoPackageCall]
    /\ built = 0
    /\ epoch_built = 0
    /\ returned = {}
    /\ retired = {}

(* normalize_features has not been called *)
IdleNormalize == ncall = NoNormalizeCall

IdleRest == IdleKeys /\ IdleGeneration /\ IdleAudience /\ IdleApp /\ IdlePackage /\ IdleNormalize

(* ModelManager.__init__ *)
InitManager ==
    /\ _model_cache = EmptyCache
    /\ _last_accessed = <<>>
    /\ _cache_size \in Budgets
    /\ cuda_available \in BOOLEAN
    /\ clock = 0
    /\ other_allocated \in OtherAllocations
    /\ max_allocated = other_allocated
    /\ nloads = 0
    /\ call = NoCall

Init == InitManager /\ IdleThreads /\ IdleBreaker /\ IdleService /\ IdleBatch /\ IdleRest

MMGetModel ==
    /\ \E model_name \in ModelNames, model_type \in TypeInputs,
          force_reload \in BOOLEAN, d \in 0..1, load_ok \in BOOLEAN :
          GetModel(model_name, model_type, force_reload, d, load_ok)
    /\ UNCHANGED <<thVars, cbVars, svVars, bpVars, xVars>>

MMClearCache ==
    /\ \E force_clear \in BOOLEAN, memory_threshold \in Thresholds :
          ClearCache(force_clear, memory_threshold)
    /\ UNCHANGED <<thVars, cbVars, svVars, bpVars, xVars>>

Next == MMGetModel \/ MMClearCache

Spec == Init /\ [][Next]_vars

IdleManager ==
    /\ _model_cache = EmptyCache
    /\ _last_accessed = <<>>
    /\ _cache_size \in {CHOOSE b \in Budgets : TRUE}
    /\ cuda_available = FALSE
    /\ clock = 0
    /\ other_allocated = 0
    /\ max_allocated = 0
    /\ nloads = 0
    /\ call = NoCall

----------------------------------------------------------------------------
(* Calls through one circuit breaker *)

(* decorator: failures = 0, last_failure_time = 0 *)
NewBreaker ==
    /\ max_failures \in FailureLimits
    /\ reset_timeout \in ResetTimeouts
    /\ failures = 0
    /\ last_failure_time = 0
    /\ now = 0
    /\ failure_log = <<>>
    /\ streak_from = 0
    /\ bcall = NoBreakerCall

CBTimePasses == TimePasses /\ UNCHANGED <<mmVars, thVars, svVars, bpVars, xVars>>
CBReject == BreakerReject /\ UNCHANGED <<mmVars, thVars, svVars, bpVars, xVars>>
CBSuccess == (\E dur \in Durations : BreakerSuccess(dur)) /\ UNCHANGED <<mmVars, thVars, svVars, bpVars, xVars>>
CBFailure == (\E dur \in Durations : BreakerFailure(dur)) /\ UNCHANGED <<mmVars, thVars, svVars, bpVars, xVars>>

NextBreaker == CBTimePasses \/ CBReject \/ CBSuccess \/ CBFailure

InitBreaker == IdleManager /\ IdleThreads /\ NewBreaker /\ IdleService /\ IdleBatch /\ IdleRest

SpecBreaker == InitBreaker /\ [][NextBreaker]_vars

IsBreakerCall == bcall.outcome \in {"rejected", "ok", "failed"}

(* C7. Circuit breaker trip, as claimed: after max_failures failed calls in *)
(* a row, a call made less than reset_timeout after the last of these       *)
(* failures is rejected and the wrapped operation is not invoked.           *)
C7_TripAfterFailure ==
    (/\ IsBreakerCall
     /\ bcall.streak >= max_failures
     /\ bcall.at - bcall.last.end < reset_timeout)
    => (bcall.outcome = "rejected" /\ ~bcall.invoked)

(* what the code does: the window is counted from the start of the call that *)
(* failed last                                                               *)
C7_TripAfterStart ==
    (/\ IsBreakerCall
     /\ bcall.streak >= max_failures
     /\ bcall.at - bcall.last.start < reset_timeout)
    => (bcall.outcome = "rejected" /\ ~bcall.invoked)

C7_TripReached ==
    /\ bcall.outcome = "rejected"
    /\ bcall.streak = max_failures

(* C8. Circuit breaker reset on success: after a call through the breaker   *)
(* has returned, the failure counter is zero, whatever it was before, and   *)
(* the breaker is closed for the next call.                                 *)
C8_ResetOnSuccess ==
    bcall.outcome = "ok" => (failures = 0 /\ ~BreakerOpen(now))

C8_Witness ==
    /\ bcall.outcome = "ok"
    /\ bcall.failures_before >= max_failures
    /\ failures = 0

(* C9. Circuit breaker recovery: a call made reset_timeout or more after the *)
(* last recorded failure invokes the wrapped operation, also when the        *)
(* failure counter is at or above max_failures.                              *)
C9_Recovery ==
    (IsBreakerCall /\ bcall.at - bcall.last_failure_before >= reset_timeout)
    => (bcall.invoked /\ bcall.outcome # "rejected")

C9_Witness ==
    /\ IsBreakerCall
    /\ bcall.failures_before >= max_failures
    /\ bcall.at - bcall.last_failure_before >= reset_timeout
    /\ bcall.invoked

(* failures that ended no more than reset_timeout before the last call *)
FailuresInWindow ==
    {i \in 1..Len(failure_log) :
        /\ failure_log[i].end <= bcall.at
        /\ bcall.at - failure_log[i].end <= reset_timeout}

(* C10. Circuit breaker window, as claimed: a call is rejected only if at    *)
(* least max_failures failures occurred within reset_timeout before it.      *)
C10_WindowOriginal ==
    bcall.outcome = "rejected" => Cardinality(FailuresInWindow) >= max_failures

(* C10, amended: a call is rejected only if at least max_failures calls have *)
(* failed since the last successful call and the last of them failed less    *)
(* than reset_timeout before the rejected call; the earlier ones may lie     *)
(* further back than the window.                                             *)
C10_Window ==
    bcall.outcome = "rejected" =>
        /\ bcall.streak >= max_failures
        /\ bcall.at - bcall.last.start < reset_timeout
        /\ bcall.at - bcall.last.end < reset_timeout

C10_Witness ==
    /\ bcall.outcome = "rejected"
    /\ Cardinality(FailuresInWindow) < max_failures


----------------------------------------------------------------------------
(* Properties of ModelManager used by one thread (Spec) *)

Handles(c) == {c[k] : k \in DOMAIN c}

GetModelStep == call'.op = "get_model" /\ mmVars' # mmVars

(* C1. Cache identity: a get_model call with force_reload = false for a    *)
(* key that is resident is a hit: it returns the handle the cache holds for *)
(* that key and loads nothing; and the handle held for a key stays the very *)
(* same from call to call until the key is cleared, evicted or force-       *)
(* reloaded, so every later call returns the handle the first call stored.  *)
C1_CacheIdentity ==
    [][ /\ (GetModelStep /\ ~call'.force_reload /\ call'.key \in DOMAIN _model_cache)
            => /\ call'.outcome = "hit"
               /\ call'.ret = _model_cache[call'.key]
               /\ ~call'.loaded
               /\ nloads' = nloads
               /\ _model_cache' = _model_cache
        /\ \A k \in DOMAIN _model_cache \cap DOMAIN _model_cache' :
              ~(GetModelStep /\ call'.force_reload /\ call'.key = k)
              => _model_cache'[k] = _model_cache[k]
      ]_vars

C1_Witness ==
    /\ call.op = "get_model" /\ call.outcome = "hit" /\ ~call.force_reload
    /\ call.ret # NoHandle /\ call.ret.id < nloads

(* C2. Forced reload: get_model with force_reload = true and a valid type   *)
(* always attempts a load, resident or not, and when the call succeeds the  *)
(* cache entry of the key is the handle just loaded, which is none of the   *)
(* handles that were resident before the call.                              *)
C2_ForcedReload ==
    [][ (GetModelStep /\ call'.force_reload /\ ValidType(call'.model_type))
        => /\ call'.loaded
           /\ call'.outcome = "loaded"
              => /\ call'.key \in DOMAIN _model_cache'
                 /\ _model_cache'[call'.key] = call'.ret
                 /\ call'.ret \notin Handles(_model_cache)
                 /\ nloads' = nloads + 1
      ]_vars

C2_Witness ==
    /\ call.op = "get_model" /\ call.force_reload /\ call.outcome = "loaded"
    /\ nloads >= 2
    /\ \E i \in 1..Len(_last_accessed) :
          _last_accessed[i][1] = call.key /\ i < Len(_last_accessed)

(* C3. LRU victim: every entry evicted by an insert was resident and had, *)
(* when it was evicted, the least last-access value of all resident       *)
(* entries.                                                               *)
C3_LruVictim ==
    call.op = "get_model" =>
        \A i \in 1..Len(call.evictions) :
            LET e == call.evictions[i] IN
            /\ e.key \in e.resident
            /\ e.key \in DictKeys(e.before)
            /\ \A k \in e.resident :
                  /\ k \in DictKeys(e.before)
                  /\ DictGet(e.before, e.key) <= DictGet(e.before, k)

C3_Witness ==
    /\ call.op = "get_model" /\ call.outcome = "loaded"
    /\ \E i \in 1..Len(call.evictions) :
          LET e == call.evictions[i] IN
          \E k \in e.resident : DictGet(e.before, e.key) < DictGet(e.before, k)

(* C4. Eviction threshold: with an accelerator, an insert evicts entries  *)
(* one at a time, each only while the reported memory exceeds the budget  *)
(* and the cache is non-empty; when the new handle is inserted either the *)
(* reported memory is within the budget or nothing that was resident      *)
(* before is left.                                                        *)
C4_EvictionThreshold ==
    (cuda_available /\ call.op = "get_model" /\ call.outcome = "loaded") =>
        /\ \A i \in 1..Len(call.evictions) :
              /\ call.evictions[i].mem > _cache_size
              /\ call.evictions[i].resident # {}
              /\ i < Len(call.evictions) =>
                    call.evictions[i+1].resident =
                        call.evictions[i].resident \ {call.evictions[i].key}
        /\ \/ call.reported <= _cache_size
           \/ DOMAIN _model_cache = {call.key}
        /\ \/ MemoryAllocated(_model_cache, 0) <= _cache_size
           \/ DOMAIN _model_cache = {call.key}

C4_Witness ==
    /\ cuda_available /\ call.op = "get_model" /\ call.outcome = "loaded"
    /\ Len(call.evictions) >= 1
    /\ Cardinality(DOMAIN _model_cache) >= 2
    /\ call.reported <= _cache_size

C4_WitnessAllEvicted ==
    /\ cuda_available /\ call.op = "get_model" /\ call.outcome = "loaded"
    /\ Len(call.evictions) >= 1
    /\ call.reported > _cache_size

(* the fixed enumeration of model types *)
TypeEnumeration == {"BERT", "GPT", "CUSTOM"}

(* C16. Invalid model type: get_model with a type outside BERT, GPT,       *)
(* CUSTOM raises ValueError, whatever force_reload is and whatever is      *)
(* resident; nothing is loaded and the cache and the last-access           *)
(* bookkeeping stay as they were.                                          *)
C16_InvalidType ==
    [][ (GetModelStep /\ call'.model_type \notin TypeEnumeration)
        => /\ call'.outcome = "ValueError"
           /\ ~call'.loaded
           /\ call'.ret = NoHandle
           /\ _model_cache' = _model_cache
           /\ _last_accessed' = _last_accessed
           /\ nloads' = nloads
           /\ max_allocated' = max_allocated
      ]_vars

C16_Witness ==
    /\ call.op = "get_model" /\ call.outcome = "ValueError"
    /\ call.model_type \notin TypeEnumeration
    /\ call.force_reload
    /\ _model_cache # EmptyCache

(* C17. Full clear, as claimed: clear_cache(force_clear=True) leaves the   *)
(* cache and the last-access bookkeeping empty and returns a cleared count *)
(* equal to the number of handles that were resident before the call.      *)
C17_FullClear ==
    [][ (call'.op = "clear_cache" /\ call'.force_reload /\ mmVars' # mmVars)
        => /\ _model_cache' = EmptyCache
           /\ _last_accessed' = <<>>
           /\ call'.cleared = Cardinality(DOMAIN _model_cache)
      ]_vars

(* what the code does: both dicts are emptied and the count returned is 0 *)
C17_FullClearEmpties ==
    [][ (call'.op = "clear_cache" /\ call'.force_reload /\ mmVars' # mmVars)
        => /\ _model_cache' = EmptyCache
           /\ _last_accessed' = <<>>
           /\ call'.cleared = 0
      ]_vars

C17_FullClearReached ==
    /\ call.op = "clear_cache" /\ call.force_reload
    /\ nloads >= 2
    /\ _model_cache = EmptyCache

(* place of key k in the insertion order of dict d *)
Position(d, k) == CHOOSE i \in 1..Len(d) : d[i][1] = k

(* k1 was accessed before k2, or at the same time and inserted before it *)
Older(d, k1, k2) ==
    \/ DictGet(d, k1) < DictGet(d, k2)
    \/ DictGet(d, k1) = DictGet(d, k2) /\ Position(d, k1) < Position(d, k2)

(* C18. Threshold clear: clear_cache(force_clear=False) called with n      *)
(* resident entries while the accelerator's memory utilization exceeds     *)
(* memory_threshold removes exactly n div 2 entries, each of them older    *)
(* (by last access, then by insertion order) than every entry it keeps,    *)
(* leaves the kept entries as they were, and returns the number removed.   *)
C18_ThresholdClear ==
    [][ \A thr \in Thresholds :
          (/\ ClearCache(FALSE, thr)
           /\ cuda_available
           /\ MemoryAllocated(_model_cache, 0) * 10 > thr * max_allocated)
          => LET n == Cardinality(DOMAIN _model_cache)
                 removed == DOMAIN _model_cache \ DOMAIN _model_cache'
             IN /\ DOMAIN _model_cache' \subseteq DOMAIN _model_cache
                /\ Cardinality(removed) = n \div 2
                /\ \A r \in removed, k \in DOMAIN _model_cache' :
                      Older(_last_accessed, r, k)
                /\ \A k \in DOMAIN _model_cache' : _model_cache'[k] = _model_cache[k]
                /\ _last_accessed' =
                      SelectSeq(_last_accessed, LAMBDA e : e[1] \notin removed)
                /\ call'.outcome = "cleared"
                /\ call'.cleared = Cardinality(removed)
      ]_vars

C18_Witness ==
    /\ call.op = "clear_cache" /\ ~call.force_reload /\ call.outcome = "cleared"
    /\ cuda_available
    /\ call.cleared = 1
    /\ Cardinality(DOMAIN _model_cache) = 1

(* C19. Threshold clear is a no-op, as claimed: clear_cache(               *)
(* force_clear=False) called when the accelerator's memory utilization is  *)
(* at or below memory_threshold, or without an accelerator, returns zero   *)
(* cleared and leaves both dicts as they were.                             *)
C19_NoOpClear ==
    [][ \A thr \in Thresholds :
          (/\ ClearCache(FALSE, thr)
           /\ \/ ~cuda_available
              \/ MemoryAllocated(_model_cache, 0) * 10 <= thr * max_allocated)
          => /\ call'.outcome = "cleared"
             /\ call'.cleared = 0
             /\ _model_cache' = _model_cache
             /\ _last_accessed' = _last_accessed
      ]_vars

(* what the code does: it is a no-op once the accelerator has ever held    *)
(* memory; before that the utilization is 0/0 and the call raises          *)
C19_NoOpClearAfterAllocation ==
    [][ \A thr \in Thresholds :
          (/\ ClearCache(FALSE, thr)
           /\ \/ ~cuda_available
              \/ /\ max_allocated > 0
                 /\ MemoryAllocated(_model_cache, 0) * 10 <= thr * max_allocated)
          => /\ call'.outcome = "cleared"
             /\ call'.cleared = 0
             /\ _model_cache' = _model_cache
             /\ _last_accessed' = _last_accessed
      ]_vars

C19_NoOpReached ==
    /\ call.op = "clear_cache" /\ ~call.force_reload /\ call.outcome = "cleared"
    /\ cuda_available
    /\ call.reported = -1
    /\ _model_cache # EmptyCache

(* C20. No host-memory enforcement: without an accelerator get_model never *)
(* evicts: a successful load adds its key to the resident keys and every   *)
(* other get_model leaves them as they are; a key leaves the cache only in *)
(* clear_cache(force_clear=True), which empties it.  So the resident keys  *)
(* are the keys loaded since the last full clear.                          *)
C20_NoHostEviction ==
    [][ ~cuda_available =>
          /\ GetModelStep =>
                /\ call'.evictions = <<>>
                /\ DOMAIN _model_cache' =
                      IF call'.outcome = "loaded"
                      THEN DOMAIN _model_cache \cup {call'.key}
                      ELSE DOMAIN _model_cache
          /\ (DOMAIN _model_cache \ DOMAIN _model_cache' # {}) =>
                /\ call'.op = "clear_cache" /\ call'.force_reload
                /\ _model_cache' = EmptyCache
      ]_vars

C20_Witness ==
    /\ ~cuda_available
    /\ call.op = "get_model" /\ call.outcome = "loaded"
    /\ Cardinality(DOMAIN _model_cache) = 3
    /\ SumSizes(_model_cache, DOMAIN _model_cache) > _cache_size

(* the last-access value of the key of a get_model call does not decrease *)
(* over the call                                                          *)
KeptUp(k) ==
    (k \in DictKeys(_last_accessed) /\ k \in DictKeys(_last_accessed'))
    => DictGet(_last_accessed', k) >= DictGet(_last_accessed, k)

(* C22 as stated. Last-access monotonicity: over every get_model call the *)
(* last-access value recorded for the key of the call does not decrease,  *)
(* with an accelerator and without.                                       *)
C22_MonotoneOriginal ==
    [][call'.op = "get_model" => KeptUp(call'.key)]_vars

(* C22, amended. With an accelerator the last-access value recorded for   *)
(* the key of a get_model call never decreases over the call and no       *)
(* recorded value is ahead of the clock; without an accelerator the value *)
(* never decreases over a call that does not force a reload.              *)
C22_Monotone ==
    [][call'.op = "get_model" =>
         /\ (cuda_available \/ ~call'.force_reload) => KeptUp(call'.key)
         /\ cuda_available =>
               \A k \in DictKeys(_last_accessed') :
                  DictGet(_last_accessed', k) <= clock']_vars

C22_Witness ==
    /\ cuda_available
    /\ call.op = "get_model" /\ call.force_reload /\ call.outcome = "loaded"
    /\ nloads >= 2
    /\ DictGet(_last_accessed, call.key) = MaxClock

(* C23. Post-hoc inference timeout: predict raises the timeout error only *)
(* after the forward pass has run to its end, exactly when the pass took  *)
(* longer than INFERENCE_TIMEOUT_SECONDS, and then returns no prediction; *)
(* a completed pass within the bound returns its prediction.              *)
C23_PostHocTimeout ==
    \A t \in Threads :
       (spc[t] = "p_release" /\ sloc[t].op = "predict") =>
          /\ sloc[t].outcome = "TimeoutError" =>
                /\ sloc[t].pass_done
                /\ sloc[t].elapsed > INFERENCE_TIMEOUT_SECONDS
                /\ sloc[t].result = "none"
          /\ sloc[t].pass_done =>
                IF sloc[t].elapsed > INFERENCE_TIMEOUT_SECONDS
                THEN sloc[t].outcome = "TimeoutError"
                ELSE sloc[t].outcome = "ok" /\ sloc[t].result = "prediction"

C23_Witness ==
    \E t, u \in Threads :
       /\ spc[t] = "p_release" /\ sloc[t].outcome = "TimeoutError"
       /\ sloc[t].elapsed = INFERENCE_TIMEOUT_SECONDS + 1
       /\ spc[u] = "idle" /\ sloc[u].op = "predict" /\ sloc[u].outcome = "ok"

----------------------------------------------------------------------------
(* One thread using a ModelManager with names that contain type names *)

KeyNames == {"m", "m_BERT"}
KeyTypes == {"BERT", "GPT", "BERT_GPT"}
KeyThreshold == 5

InitKeys == InitManager /\ IdleThreads /\ IdleBreaker /\ IdleService /\ IdleBatch /\ IdleRest

(* get_model, with a note of the pair asked for and of the pair every new  *)
(* handle was loaded for                                                   *)
KyGetModel ==
    /\ \E model_name \in KeyNames, model_type \in KeyTypes,
          force_reload \in BOOLEAN, load_ok \in BOOLEAN :
          /\ GetModel(model_name, model_type, force_reload, 0, load_ok)
          /\ asked_for' = <<model_name, model_type>>
          /\ loaded_for' = IF nloads' > nloads
                           THEN Append(loaded_for, <<model_name, model_type>>)
                           ELSE loaded_for
    /\ UNCHANGED <<thVars, cbVars, svVars, bpVars, yVars>>

KyClearCache ==
    /\ \E force_clear \in BOOLEAN :
          ClearCache(force_clear, KeyThreshold)
    /\ UNCHANGED <<thVars, cbVars, svVars, bpVars, kyVars, yVars>>

NextKeys == KyGetModel \/ KyClearCache

SpecKeys == InitKeys /\ [][NextKeys]_vars

(* C21. Key uniqueness: the resident handles were loaded for pairwise      *)
(* different (name, type) pairs, each for a pair with a type of the        *)
(* enumeration, and a cache hit returns a handle that was loaded for the   *)
(* very pair the call asks for.                                            *)
C21_KeyUniqueness ==
    /\ \A k \in DOMAIN _model_cache :
          /\ _model_cache[k].id \in 1..Len(loaded_for)
          /\ loaded_for[_model_cache[k].id][2] \in TypeEnumeration
    /\ \A k1, k2 \in DOMAIN _model_cache :
          loaded_for[_model_cache[k1].id] = loaded_for[_model_cache[k2].id]
          => k1 = k2
    /\ (call.op = "get_model" /\ call.outcome = "hit")
          => loaded_for[call.ret.id] = asked_for

C21_Witness ==
    /\ call.op = "get_model" /\ call.outcome = "hit"
    /\ asked_for = <<"m_BERT", "GPT">>
    /\ {"m_BERT", "m_BERT_GPT"} \subseteq DOMAIN _model_cache

----------------------------------------------------------------------------
(* Threads calling predict and clear_cache of one PyTorchService *)

InitService == IdleManager /\ IdleThreads /\ IdleBreaker /\ IdleService /\ IdleBatch /\ IdleRest

SvPredictCall ==
    /\ \E t \in Threads, model_name \in ServiceModelNames, input_ok \in BOOLEAN :
          PredictCall(t, model_name, input_ok)
    /\ UNCHANGED <<mmVars, thVars, cbVars, bpVars, xVars>>
SvPredictAcquire == (\E t \in Threads : PredictAcquire(t)) /\ UNCHANGED <<mmVars, thVars, cbVars, bpVars, xVars>>
SvPredictValidate == (\E t \in Threads : PredictValidate(t)) /\ UNCHANGED <<mmVars, thVars, cbVars, bpVars, xVars>>
SvPredictLookup == (\E t \in Threads : PredictLookup(t)) /\ UNCHANGED <<mmVars, thVars, cbVars, bpVars, xVars>>
SvPredictLoad ==
    /\ \E t \in Threads, load_ok \in BOOLEAN : PredictLoad(t, load_ok)
    /\ UNCHANGED <<mmVars, thVars, cbVars, bpVars, xVars>>
SvPredictPreprocess ==
    /\ \E t \in Threads, ok \in BOOLEAN : PredictPreprocess(t, ok)
    /\ UNCHANGED <<mmVars, thVars, cbVars, bpVars, xVars>>
SvPredictInfer ==
    /\ \E t \in Threads, pass_ok \in BOOLEAN, elapsed \in Elapsed :
          PredictInfer(t, pass_ok, elapsed)
    /\ UNCHANGED <<mmVars, thVars, cbVars, bpVars, xVars>>
SvPredictRelease == (\E t \in Threads : PredictRelease(t)) /\ UNCHANGED <<mmVars, thVars, cbVars, bpVars, xVars>>
SvClearCall == (\E t \in Threads : ServiceClearCall(t)) /\ UNCHANGED <<mmVars, thVars, cbVars, bpVars, xVars>>
SvClearAcquire == (\E t \in Threads : ServiceClearAcquire(t)) /\ UNCHANGED <<mmVars, thVars, cbVars, bpVars, xVars>>
SvClear == (\E t \in Threads : ServiceClear(t)) /\ UNCHANGED <<mmVars, thVars, cbVars, bpVars, xVars>>
SvClearRelease == (\E t \in Threads : ServiceClearRelease(t)) /\ UNCHANGED <<mmVars, thVars, cbVars, bpVars, xVars>>

NextService ==
    \/ SvPredictCall \/ SvPredictAcquire \/ SvPredictValidate \/ SvPredictLookup
    \/ SvPredictLoad \/ SvPredictPreprocess \/ SvPredictInfer \/ SvPredictRelease
    \/ SvClearCall \/ SvClearAcquire \/ SvClear \/ SvClearRelease

SpecService == InitService /\ [][NextService]_vars

(* positions inside the with self._cache_lock block of predict *)
PredictSection == {"p_validate", "p_lookup", "p_load", "p_preprocess", "p_infer",
                   "p_release"}
(* positions inside the with self._cache_lock block of clear_cache *)
ClearSection == {"c_clear", "c_release"}

InSection(t) == spc[t] \in PredictSection \cup ClearSection

(* C5. Mutual exclusion in the inference service: at most one thread is     *)
(* inside the section of predict that reads and writes the model cache,     *)
(* loads and infers, no thread is inside clear_cache's section at the same  *)
(* time, and the thread inside is the one that holds the lock.              *)
C5_MutualExclusion ==
    /\ \A t1, t2 \in Threads : (InSection(t1) /\ InSection(t2)) => t1 = t2
    /\ \A t \in Threads : InSection(t) <=> _cache_lock = t

C5_Witness ==
    \E t1, t2 \in Threads :
        /\ spc[t1] = "p_infer"
        /\ spc[t2] \in {"p_acquire", "c_acquire"}
        /\ _cache_lock = t1

(* C11. Circuit breaker coverage of the inference service, as claimed: a    *)
(* predict call made after max_failures predict calls in a row have failed *)
(* in their load or inference fails fast: it attempts no model load and no *)
(* inference.                                                              *)
C11_BreakerCoverage ==
    \A t \in Threads :
        (sloc[t].op = "predict" /\ sloc[t].after_failures >= max_failures)
        => /\ ~sloc[t].load
           /\ spc[t] \notin {"p_load", "p_infer"}

(* a predict call with empty input_data or an empty model_name *)
InvalidCall(t) ==
    /\ sloc[t].op = "predict"
    /\ (~sloc[t].input_ok \/ sloc[t].model_name = "")

(* C15. Invalid input to predict: a predict call with empty input_data or  *)
(* an empty model_name goes from the validation straight to the exit with  *)
(* ValueError; from the validation to the end of the call the model cache  *)
(* keeps its entries, no cache hit is counted and load_model is not called *)
(* (so no load is timed).                                                  *)
C15_InvalidInput ==
    [][ \A t \in Threads :
          (InvalidCall(t) /\ spc[t] \in {"p_validate", "p_release"})
          => /\ svc_cache' = svc_cache
             /\ svc_loads' = svc_loads
             /\ spc'[t] \in {"p_validate", "p_release", "idle"}
             /\ spc'[t] # "p_validate" => sloc'[t].outcome = "ValueError"
             /\ ~sloc'[t].hit /\ ~sloc'[t].load
             /\ sloc'[t].model = NoHandle
      ]_vars

C15_Witness ==
    \E t \in Threads :
        /\ spc[t] = "p_release" /\ InvalidCall(t)
        /\ sloc[t].outcome = "ValueError"
        /\ ~sloc[t].input_ok
        /\ sloc[t].model_name \in DOMAIN svc_cache

----------------------------------------------------------------------------
(* One thread calling batch_predict of one PyTorchService *)

InitBatch == IdleManager /\ IdleThreads /\ IdleBreaker /\ IdleService /\ IdleBatch /\ IdleRest

BpCall ==
    /\ \E model_name \in BatchModelNames, n \in BatchLengths :
          BatchPredictCall(model_name, n)
    /\ UNCHANGED <<mmVars, thVars, cbVars, xVars>>
BpChunk == (\E ok \in BOOLEAN : BatchChunk(ok)) /\ UNCHANGED <<mmVars, thVars, cbVars, xVars>>
BpPredictAcquire == PredictAcquire(BatchThread) /\ UNCHANGED <<mmVars, thVars, cbVars, bpVars, xVars>>
BpPredictValidate == PredictValidate(BatchThread) /\ UNCHANGED <<mmVars, thVars, cbVars, bpVars, xVars>>
BpPredictLookup == PredictLookup(BatchThread) /\ UNCHANGED <<mmVars, thVars, cbVars, bpVars, xVars>>
BpPredictLoad ==
    /\ \E load_ok \in BOOLEAN : PredictLoad(BatchThread, load_ok)
    /\ UNCHANGED <<mmVars, thVars, cbVars, bpVars, xVars>>
BpPredictPreprocess ==
    /\ \E ok \in BOOLEAN : PredictPreprocess(BatchThread, ok)
    /\ UNCHANGED <<mmVars, thVars, cbVars, bpVars, xVars>>
BpPredictInfer ==
    /\ \E pass_ok \in BOOLEAN, elapsed \in Elapsed :
          PredictInfer(BatchThread, pass_ok, elapsed)
    /\ UNCHANGED <<mmVars, thVars, cbVars, bpVars, xVars>>
BpPredictRelease == PredictRelease(BatchThread) /\ UNCHANGED <<mmVars, thVars, cbVars, bpVars, xVars>>
BpCollect ==
    /\ \E shape \in PredictionShapes : BatchCollect(shape)
    /\ UNCHANGED <<mmVars, thVars, cbVars, xVars>>
BpReturn == BatchReturn /\ UNCHANGED <<mmVars, thVars, cbVars, xVars>>

NextBatch ==
    \/ BpCall \/ BpChunk \/ BpPredictAcquire \/ BpPredictValidate \/ BpPredictLookup
    \/ BpPredictLoad \/ BpPredictPreprocess \/ BpPredictInfer \/ BpPredictRelease
    \/ BpCollect \/ BpReturn

SpecBatch == InitBatch /\ [][NextBatch]_vars

(* C12. Batch order preservation: when batch_predict returns and every    *)
(* predict call returned one prediction per item of its chunk in chunk     *)
(* order, the result has one record per input item and the i-th record is  *)
(* the prediction of the i-th item.                                        *)
C12_BatchOrder ==
    (bobs.outcome = "ok" /\ bobs.per_item) =>
        /\ Len(bobs.ret) = Len(bobs.batch_data)
        /\ \A k \in 1..Len(bobs.batch_data) :
              bobs.ret[k] = [prediction |-> Prediction(bobs.batch_data[k])]

C12_Witness ==
    /\ bobs.outcome = "ok" /\ bobs.per_item
    /\ Len(bobs.batch_data) = 2 * BATCH_SIZE + 1
    /\ Len(bobs.ret) = 2 * BATCH_SIZE + 1

RECURSIVE Flatten(_)
Flatten(chunks) ==
    IF chunks = <<>> THEN <<>> ELSE chunks[1] \o Flatten(Tail(chunks))

(* C13. Batch chunking: the chunks batch_predict slices are consecutive    *)
(* pieces of the item list (together a prefix of it, and the whole list    *)
(* when the call returns), each of at least one and at most BATCH_SIZE     *)
(* items, and predict is called once per chunk, the last chunk excepted    *)
(* when its preprocessing raised.                                          *)
C13_BatchChunking ==
    LET flat == Flatten(bobs.chunks) IN
    /\ \A j \in 1..Len(bobs.chunks) :
          Len(bobs.chunks[j]) >= 1 /\ Len(bobs.chunks[j]) <= BATCH_SIZE
    /\ Len(flat) <= Len(bobs.batch_data)
    /\ flat = SubSeq(bobs.batch_data, 1, Len(flat))
    /\ bobs.preprocess_calls = Len(bobs.chunks)
    /\ bobs.predict_calls =
          IF bobs.outcome = "batch_preprocess_error"
          THEN Len(bobs.chunks) - 1 ELSE Len(bobs.chunks)
    /\ bobs.outcome = "ok" =>
          /\ flat = bobs.batch_data
          /\ bobs.predict_calls = Len(bobs.chunks)

C13_Witness ==
    /\ bobs.outcome = "ok"
    /\ Len(bobs.chunks) = 3
    /\ Len(bobs.chunks[1]) = BATCH_SIZE
    /\ Len(bobs.chunks[3]) < BATCH_SIZE
    /\ bobs.predict_calls = 3

(* C14. Empty batch: batch_predict with an empty item list raises          *)
(* ValueError("Empty batch data") at once: nothing is preprocessed,        *)
(* predict is not called, no thread moves, and the model cache and the     *)
(* number of loads stay as they were.                                      *)
C14_EmptyBatch ==
    [][ (bpc = "idle" /\ bobs' # bobs /\ bobs'.batch_data = <<>>)
        => /\ bobs'.outcome = "ValueError: Empty batch data"
           /\ bobs'.preprocess_calls = 0
           /\ bobs'.predict_calls = 0
           /\ bobs'.chunks = <<>>
           /\ bpc' = "idle"
           /\ svVars' = svVars
      ]_vars

C14_Witness ==
    /\ bpc = "idle"
    /\ bobs.batch_data = <<>>
    /\ bobs.outcome = "ValueError: Empty batch data"
    /\ svc_cache # EmptyCache

----------------------------------------------------------------------------
(* Threads calling get_model and clear_cache of one ModelManager *)

ThreadModelNames == {"a", "b"}

InitThreads == InitManager /\ IdleThreads /\ IdleBreaker /\ IdleService /\ IdleBatch /\ IdleRest

ThGetModel ==
    /\ \E t \in Threads, model_name \in ThreadModelNames, model_type \in TypeInputs,
          force_reload \in BOOLEAN : TGetModel(t, model_name, model_type, force_reload)
    /\ UNCHANGED <<cbVars, svVars, bpVars, xVars>>
ThHitTouch == (\E t \in Threads : THitTouch(t)) /\ UNCHANGED <<cbVars, svVars, bpVars, xVars>>
ThHitReturn == (\E t \in Threads : THitReturn(t)) /\ UNCHANGED <<cbVars, svVars, bpVars, xVars>>
ThLoad ==
    /\ \E t \in Threads, load_ok \in BOOLEAN : TLoad(t, load_ok)
    /\ UNCHANGED <<cbVars, svVars, bpVars, xVars>>
ThCheck == (\E t \in Threads : TCheck(t)) /\ UNCHANGED <<cbVars, svVars, bpVars, xVars>>
ThMin == (\E t \in Threads : TMin(t)) /\ UNCHANGED <<cbVars, svVars, bpVars, xVars>>
ThDelCache == (\E t \in Threads : TDelCache(t)) /\ UNCHANGED <<cbVars, svVars, bpVars, xVars>>
ThDelLa == (\E t \in Threads : TDelLa(t)) /\ UNCHANGED <<cbVars, svVars, bpVars, xVars>>
ThSetCache == (\E t \in Threads : TSetCache(t)) /\ UNCHANGED <<cbVars, svVars, bpVars, xVars>>
ThSetLa == (\E t \in Threads : TSetLa(t)) /\ UNCHANGED <<cbVars, svVars, bpVars, xVars>>
ThClearCall == (\E t \in Threads : TClearCall(t)) /\ UNCHANGED <<cbVars, svVars, bpVars, xVars>>
ThClearCache == (\E t \in Threads : TClearCache(t)) /\ UNCHANGED <<cbVars, svVars, bpVars, xVars>>
ThClearLa == (\E t \in Threads : TClearLa(t)) /\ UNCHANGED <<cbVars, svVars, bpVars, xVars>>
ThClock == TClock /\ UNCHANGED <<cbVars, svVars, bpVars, xVars>>

NextThreads ==
    \/ ThGetModel \/ ThHitTouch \/ ThHitReturn \/ ThLoad \/ ThCheck \/ ThMin
    \/ ThDelCache \/ ThDelLa \/ ThSetCache \/ ThSetLa
    \/ ThClearCall \/ ThClearCache \/ ThClearLa \/ ThClock

SpecThreads == InitThreads /\ [][NextThreads]_vars

(* a thread has changed one of _model_cache and _last_accessed and not yet *)
(* the other: it is in the middle of an eviction, an insert or a clear     *)
InMutation(t) == tpc[t] \in {"uc_del_la", "uc_set_la", "cc_la"}

(* C6. Lock discipline of the Model Cache, as claimed: the mutations of the *)
(* resident model set are serialized by the cache's lock, so no two threads *)
(* are inside a mutation of that state at the same time.                    *)
C6_LockDiscipline ==
    \A t1, t2 \in Threads : (InMutation(t1) /\ InMutation(t2)) => t1 = t2

----------------------------------------------------------------------------
(* Callers of the generation service *)

CreativeBase == {"objective", "audience", "platform", "brand_guidelines",
                 "creative_type"}

CampaignParamInputs ==
    {DictValue(CampaignTemplateFields),
     DictValue(CampaignTemplateFields \ {"platform"}),
     DictValue({"test"})}
CreativeParamInputs ==
    {DictValue(CreativeBase \cup {"target_audience"}),
     DictValue(CreativeBase),
     DictValue(CreativeBase \ {"platform"})}
PerformanceInputs ==
    {NoneValue, DictValue({}), DictValue({"clicks"}), DictValue(RequiredFields),
     DictValue(RequiredFields \cup {"clicks"})}

(* the answers the API would give to the first, second, ... request *)
AnswerSequences == [1..(MAX_RETRIES + 1) -> Answers]

(* generate_campaign_structure(p), (campaign_params=p), and the fields   *)
(* of p given as keyword arguments                                       *)
CampaignCalls ==
    {[args |-> <<p>>, kwargs |-> <<>>] : p \in CampaignParamInputs}
    \cup {[args |-> <<>>, kwargs |-> <<<<"campaign_params", p>>>>] :
             p \in CampaignParamInputs}
    \cup {[args |-> <<>>,
           kwargs |-> <<<<"platform", NoneValue>>, <<"objective", NoneValue>>,
                        <<"target_audience", NoneValue>>>>]}

(* generate_ad_creative(c, d), (c), (creative_params=c, performance_data=d) *)
CreativeCalls ==
    {[args |-> <<c, d>>, kwargs |-> <<>>] :
        c \in CreativeParamInputs, d \in PerformanceInputs}
    \cup {[args |-> <<c>>, kwargs |-> <<>>] : c \in CreativeParamInputs}
    \cup {[args |-> <<>>,
           kwargs |-> <<<<"creative_params", c>>, <<"performance_data", d>>>>] :
             c \in CreativeParamInputs, d \in PerformanceInputs}

InitGeneration == IdleManager /\ IdleThreads /\ IdleBreaker /\ IdleService /\ IdleBatch /\ IdleRest

GnCampaignStructure ==
    /\ \E c \in CampaignCalls, answers \in AnswerSequences :
          GenerateCall("generate_campaign_structure", c.args, c.kwargs, answers)
    /\ UNCHANGED <<mmVars, thVars, cbVars, svVars, bpVars, kyVars, aaVars, apVars, inVars, zVars>>

GnAdCreative ==
    /\ \E c \in CreativeCalls, answers \in AnswerSequences :
          GenerateCall("generate_ad_creative", c.args, c.kwargs, answers)
    /\ UNCHANGED <<mmVars, thVars, cbVars, svVars, bpVars, kyVars, aaVars, apVars, inVars, zVars>>

NextGeneration == GnCampaignStructure \/ GnAdCreative

SpecGeneration == InitGeneration /\ [][NextGeneration]_vars

(* C24. Bounded retry: a generate_* call makes at most MAX_RETRIES         *)
(* attempts; every answer but the last one is an API or connection error   *)
(* (so an error is retried and nothing follows a success); a call whose    *)
(* last answer is valid returns it; a call whose last answer is an API or  *)
(* connection error has made MAX_RETRIES attempts and raises.              *)
C24_BoundedRetry ==
    LET rs == gcall.responses IN
    /\ gcall.attempts <= MAX_RETRIES
    /\ Len(rs) <= MAX_RETRIES
    /\ \A i \in 1..(Len(rs) - 1) : rs[i] \in TransientErrors
    /\ (rs # <<>> /\ rs[Len(rs)] = "valid") => gcall.outcome = "ok"
    /\ (rs # <<>> /\ rs[Len(rs)] \in TransientErrors) =>
          (Len(rs) = MAX_RETRIES /\ gcall.outcome = "RetryError")

C24_Witness ==
    /\ gcall.fn = "generate_ad_creative"
    /\ gcall.responses = <<"APIError", "APIConnectionError", "valid">>
    /\ gcall.outcome = "ok"

(* the first argument of the call, the request parameters *)
RequestParams(c) ==
    IF Len(c.args) > 0 THEN c.args[1]
    ELSE IF Parameters(c.fn)[1] \in DictKeys(c.kwargs)
    THEN DictGet(c.kwargs, Parameters(c.fn)[1])
    ELSE NoneValue

(* C25. Validation failures are not retried: an answer that is not valid   *)
(* JSON or lacks a required field ends the call with an error and no       *)
(* further request, and a call whose request parameters lack a required    *)
(* field ends with an error and without any request.                       *)
C25_ValidationNotRetried ==
    LET rs == gcall.responses IN
    gcall.fn # "none" =>
       /\ \A i \in 1..Len(rs) :
             rs[i] \in {"not_json", "missing_field"} =>
                (i = Len(rs) /\ gcall.outcome \notin {"ok", "none"})
       /\ ~(RequiredFields \subseteq RequestParams(gcall).keys) =>
             (rs = <<>> /\ gcall.outcome \notin {"ok", "none"})

----------------------------------------------------------------------------
(* Callers of one AudienceAnalyzer *)

InitAudience == IdleManager /\ IdleThreads /\ IdleBreaker /\ IdleService /\ IdleBatch /\ IdleRest

AaAnalyzeAudience ==
    /\ \E cache_key \in AudienceKeys, step \in TimeSteps, analysis_ok \in BOOLEAN :
          AnalyzeAudience(cache_key, step, analysis_ok)
    /\ UNCHANGED <<mmVars, thVars, cbVars, svVars, bpVars, kyVars, oaVars, apVars, inVars, zVars>>

NextAudience == AaAnalyzeAudience

SpecAudience == InitAudience /\ [][NextAudience]_vars

----------------------------------------------------------------------------
(* The app: requests to health_check, callers of pytorch_service, shutdown *)

AppModelNames == {"test_model", "campaign_performance"}
AppInputs == {{"test"}, {"text"}, {}}
AppConfigs == {{"test"}, {"model_type"}, {"model_path", "model_config"}}

(* the API answers every request in the same way *)
SteadyAnswers == {[i \in 1..(MAX_RETRIES + 1) |-> a] : a \in Answers}

InitApp == IdleManager /\ IdleThreads /\ IdleBreaker /\ IdleService /\ IdleBatch /\ IdleRest

ApPredict ==
    /\ \E model_name \in AppModelNames, input_data \in AppInputs,
          prediction_config \in AppConfigs, load_ok \in BOOLEAN :
          AppPredict(model_name, input_data, prediction_config, load_ok)
    /\ UNCHANGED <<mmVars, thVars, cbVars, bpVars, kyVars, aaVars, inVars, zVars>>

ApHealthCheck ==
    /\ \E config_ok \in BOOLEAN, answers \in SteadyAnswers, load_ok \in BOOLEAN,
          preprocess_ok \in BOOLEAN, pass_ok \in BOOLEAN :
          HealthCheck(config_ok, answers, load_ok, preprocess_ok, pass_ok)
    /\ UNCHANGED <<mmVars, thVars, cbVars, bpVars, kyVars, aaVars, inVars, zVars>>

ApShutdown ==
    /\ \E close_ok \in BOOLEAN : ShutdownEvent(close_ok)
    /\ UNCHANGED <<mmVars, thVars, cbVars, bpVars, kyVars, aaVars, inVars, zVars>>

NextApp == ApPredict \/ ApHealthCheck \/ ApShutdown

SpecApp == InitApp /\ [][NextApp]_vars

(* C28. Health check: health_check answers 503 exactly when the            *)
(* configuration check or one of the two probes raises, and with a valid   *)
(* configuration, a generation service whose API answers well and an       *)
(* inference service that loads and runs models it answers healthy.        *)
C28_HealthCheck ==
    areq.op = "health_check" =>
       /\ areq.status = 503 <=> areq.raised # "none"
       /\ areq.status \in {200, 503}
       /\ (areq.config_ok /\ areq.generation_ok /\ areq.inference_ok)
             => areq.status = 200

(* C29. Shutdown cleanup: shutdown_event attempts to clear the model cache *)
(* of the inference service even when closing the generation client       *)
(* raises, and when it has returned that cache is empty.                   *)
C29_ShutdownCleanup ==
    areq.op = "shutdown" => (areq.clear_attempted /\ svc_cache = EmptyCache)

----------------------------------------------------------------------------
(* Threads calling initialize_ai_service and cleanup_resources *)

InitPackage == IdleManager /\ IdleThreads /\ IdleBreaker /\ IdleService /\ IdleBatch /\ IdleRest

InInitializeCall ==
    /\ \E t \in Threads, has_log_dir \in BOOLEAN : InitializeCall(t, has_log_dir)
    /\ UNCHANGED <<mmVars, thVars, cbVars, svVars, bpVars, kyVars, oaVars, aaVars, apVars, zVars>>
InInitializeAcquire ==
    /\ \E t \in Threads : InitializeAcquire(t)
    /\ UNCHANGED <<mmVars, thVars, cbVars, svVars, bpVars, kyVars, oaVars, aaVars, apVars, zVars>>
InInitializeCheck ==
    /\ \E t \in Threads : InitializeCheck(t)
    /\ UNCHANGED <<mmVars, thVars, cbVars, svVars, bpVars, kyVars, oaVars, aaVars, apVars, zVars>>
InInitializeConfigure ==
    /\ \E t \in Threads, config_ok \in BOOLEAN : InitializeConfigure(t, config_ok)
    /\ UNCHANGED <<mmVars, thVars, cbVars, svVars, bpVars, kyVars, oaVars, aaVars, apVars, zVars>>
InInitializeConstruct ==
    /\ \E t \in Threads, construct_ok \in BOOLEAN : InitializeConstruct(t, construct_ok)
    /\ UNCHANGED <<mmVars, thVars, cbVars, svVars, bpVars, kyVars, oaVars, aaVars, apVars, zVars>>
InInitializeRelease ==
    /\ \E t \in Threads : InitializeRelease(t)
    /\ UNCHANGED <<mmVars, thVars, cbVars, svVars, bpVars, kyVars, oaVars, aaVars, apVars, zVars>>
InCleanupCall ==
    /\ \E t \in Threads : CleanupCall(t)
    /\ UNCHANGED <<mmVars, thVars, cbVars, svVars, bpVars, kyVars, oaVars, aaVars, apVars, zVars>>
InCleanupAcquire ==
    /\ \E t \in Threads : CleanupAcquire(t)
    /\ UNCHANGED <<mmVars, thVars, cbVars, svVars, bpVars, kyVars, oaVars, aaVars, apVars, zVars>>
InCleanupReset ==
    /\ \E t \in Threads : CleanupReset(t)
    /\ UNCHANGED <<mmVars, thVars, cbVars, svVars, bpVars, kyVars, oaVars, aaVars, apVars, zVars>>
InCleanupRelease ==
    /\ \E t \in Threads : CleanupRelease(t)
    /\ UNCHANGED <<mmVars, thVars, cbVars, svVars, bpVars, kyVars, oaVars, aaVars, apVars, zVars>>

NextPackage ==
    \/ InInitializeCall \/ InInitializeAcquire \/ InInitializeCheck
    \/ InInitializeConfigure \/ InInitializeConstruct \/ InInitializeRelease
    \/ InCleanupCall \/ InCleanupAcquire \/ InCleanupReset \/ InCleanupRelease

SpecPackage == InitPackage /\ [][NextPackage]_vars

(* C30. Singleton initialization: between two resets by cleanup_resources  *)
(* the tuple of components is constructed at most once, whatever the       *)
(* interleaving of the calls, and every initialize_ai_service call that    *)
(* returns yields that one stored tuple; a tuple that cleanup_resources    *)
(* has dropped is never stored or returned again, so the first call after  *)
(* a cleanup constructs afresh.                                            *)
C30_Singleton ==
    /\ epoch_built <= 1
    /\ returned \subseteq {_initialized_services}
    /\ returned # {} => epoch_built = 1
    /\ _initialized_services \notin retired
    /\ returned \cap retired = {}
    /\ \A t \in Threads :
          (ipc[t] = "i_release" /\ iloc[t].outcome = "returned")
             => (iloc[t].ret = _initialized_services /\ iloc[t].ret # 0)

C30_Witness ==
    /\ retired = {1}
    /\ _initialized_services = 2
    /\ returned = {2}
    /\ \A t \in Threads :
          /\ ipc[t] = "idle"
          /\ iloc[t].op = "initialize" /\ iloc[t].ret = 2

(* C31. Initialization failure: an initialize_ai_service call that fails,   *)
(* at whatever step, ends with RuntimeError, and when it has ended the      *)
(* lock is free again and, unless another call has initialized the service  *)
(* meanwhile, _initialized_services is still None.                          *)
C31_InitializationFailure ==
    \A t \in Threads :
       (iloc[t].op = "initialize" /\ iloc[t].outcome \notin {"none", "returned"}) =>
          /\ iloc[t].outcome = "RuntimeError"
          /\ ipc[t] = "idle" => _service_lock # t
          /\ (ipc[t] = "i_release") => _initialized_services = 0

----------------------------------------------------------------------------
(* Callers of normalize_features *)

FeatureValues == {-MaxFeature, -1, 0, 1, MaxFeature}
Columns == UNION {[1..n -> FeatureValues] : n \in 3..MaxRows}
OutlierThresholds == {1, 3}

(* the arguments of a call that has not run yet *)
NormalizeArguments ==
    {[NoNormalizeCall EXCEPT !.features = features, !.dtype = dtype,
                             !.scaling_method = scaling_method,
                             !.outlier_threshold = outlier_threshold] :
        features \in Columns, dtype \in {"float", "int"},
        scaling_method \in ScalingMethods \cup {"other"},
        outlier_threshold \in OutlierThresholds}

InitNormalize ==
    /\ IdleManager /\ IdleThreads /\ IdleBreaker /\ IdleService /\ IdleBatch
    /\ IdleKeys /\ IdleGeneration /\ IdleAudience /\ IdleApp /\ IdlePackage
    /\ ncall \in NormalizeArguments

NmNormalizeFeatures ==
    /\ ncall.op = "none"
    /\ NormalizeFeatures(ncall.features, ncall.dtype, ncall.scaling_method,
                         ncall.outlier_threshold)
    /\ UNCHANGED <<mmVars, thVars, cbVars, svVars, bpVars, kyVars, oaVars, aaVars, apVars, inVars>>

NextNormalize == NmNormalizeFeatures

SpecNormalize == InitNormalize /\ [][NextNormalize]_vars

(* the positions of a column whose z-score exceeds the threshold: the     *)
(* distance to the mean, n times, is the sum of the differences to all    *)
(* values, and the variance, n*n times, the sum of the squared            *)
(* differences of all pairs                                               *)
Outliers(xs, threshold) ==
    LET n == Len(xs)
        away(i) == SumSeq([j \in 1..n |-> xs[i] - xs[j]])
        pairs == SumSeq([k \in 1..(n * n) |->
                    LET a == (k - 1) \div n + 1
                        b == ((k - 1) % n) + 1
                    IN IF a < b THEN (xs[a] - xs[b]) * (xs[a] - xs[b]) ELSE 0])
    IN {i \in 1..n : away(i) * away(i) > threshold * threshold * pairs}

(* h is the median of the absolute values, in halves: the sum of a lower  *)
(* and an upper middle value                                              *)
IsMedianAbsHalves(xs, h) ==
    LET n == Len(xs)
        below(v) == Cardinality({j \in 1..n : Abs(xs[j]) < v})
        upto(v) == Cardinality({j \in 1..n : Abs(xs[j]) <= v})
        lo == (n + 1) \div 2
        hi == n \div 2 + 1
    IN \E a, b \in {Abs(xs[j]) : j \in 1..n} :
          /\ below(a) < lo /\ upto(a) >= lo
          /\ below(b) < hi /\ upto(b) >= hi
          /\ h = a + b

(* C32. Outlier clipping: with 'robust' and exactly one value of the      *)
(* column beyond the z-score threshold, the array handed to the scaler is *)
(* the raw array except at that position, where it holds sign(value)      *)
(* times the median of the absolute values; with 'standard' and 'minmax'  *)
(* the array handed to the scaler is the raw array.                       *)
C32_OutlierClipping ==
    (ncall.op = "normalize_features" /\ ncall.outcome = "ok") =>
       LET xs == ncall.features
           out == Outliers(xs, ncall.outlier_threshold)
       IN /\ Len(ncall.scaled) = Len(xs)
          /\ ncall.scaling_method # "robust" =>
                \A i \in 1..Len(xs) : ncall.scaled[i] = 2 * xs[i]
          /\ (ncall.scaling_method = "robust" /\ Cardinality(out) = 1) =>
                \A i \in 1..Len(xs) :
                   IF i \in out
                   THEN \E h \in 0..(2 * MaxFeature) :
                           /\ IsMedianAbsHalves(xs, h)
                           /\ ncall.scaled[i] = Sign(xs[i]) * h
                   ELSE ncall.scaled[i] = 2 * xs[i]

----------------------------------------------------------------------------
(* C33. Failed load leaves the cache unchanged: a get_model call whose     *)
(* load fails is one attempt that raises, and _model_cache and             *)
(* _last_accessed are after the call what they were before it; a failed    *)
(* force_reload of a resident key leaves that key with the handle it had.  *)
C33_FailedLoad ==
    [][ (call'.op = "get_model" /\ call'.outcome = "load_error")
        => /\ _model_cache' = _model_cache
           /\ _last_accessed' = _last_accessed
           /\ nloads' = nloads
           /\ call'.ret = NoHandle
           /\ (call'.force_reload /\ call'.key \in DOMAIN _model_cache)
                 => /\ call'.key \in DOMAIN _model_cache'
                    /\ _model_cache'[call'.key] = _model_cache[call'.key]
      ]_vars

C33_Witness ==
    /\ call.op = "get_model" /\ call.outcome = "load_error" /\ call.force_reload
    /\ call.key \in DOMAIN _model_cache
    /\ Cardinality(DOMAIN _model_cache) >= 2

----------------------------------------------------------------------------
(* the keys of a dict kept as a sequence of items *)
KeysOf(d) == {d[i][1] : i \in 1..Len(d)}

(* C34. Bookkeeping consistency: in every state one thread reaches through *)
(* get_model and clear_cache the keys of _model_cache are the keys of      *)
(* _last_accessed, each once, so no eviction picks a key that is not       *)
(* resident and none fails on a missing key.                               *)
C34_Bookkeeping ==
    /\ KeysOf(_last_accessed) = DOMAIN _model_cache
    /\ Len(_last_accessed) = Cardinality(DOMAIN _model_cache)
    /\ call.loaded => call.outcome \notin {"KeyError", "ValueError"}
    /\ call.op = "clear_cache" => call.outcome # "KeyError"
    /\ \A i \in 1..Len(call.evictions) :
          call.evictions[i].key \in call.evictions[i].resident

C34_Witness ==
    /\ call.op = "get_model" /\ call.outcome = "loaded"
    /\ Len(call.evictions) >= 1
    /\ Cardinality(DOMAIN _model_cache) >= 2
    /\ KeysOf(_last_accessed) = DOMAIN _model_cache

----------------------------------------------------------------------------
(* Threads calling only get_model of one ModelManager *)

InitEvict == InitManager /\ IdleThreads /\ IdleBreaker /\ IdleService /\ IdleBatch /\ IdleRest

NextEvict ==
    \/ ThGetModel \/ ThHitTouch \/ ThHitReturn \/ ThLoad \/ ThCheck \/ ThMin
    \/ ThDelCache \/ ThDelLa \/ ThSetCache \/ ThSetLa \/ ThClock

SpecEvict == InitEvict /\ [][NextEvict]_vars

(* the steps of the eviction loop of _update_cache *)
EvictionSteps == {"uc_min", "uc_del_cache", "uc_del_la"}

(* C35. Thread-safe eviction, as claimed: with two threads inside          *)
(* get_model at once no step of an eviction raises, and once both calls    *)
(* are over the keys of _model_cache are the keys of _last_accessed.       *)
C35_ThreadSafeEviction ==
    [][ /\ \A t \in Threads :
              tpc[t] \in EvictionSteps => tloc'[t].outcome \notin {"KeyError", "ValueError"}
        /\ (\A t \in Threads : tpc'[t] = "idle")
              => KeysOf(_last_accessed') = DOMAIN _model_cache'
      ]_vars

----------------------------------------------------------------------------
(* Threads calling predict and clear_cache of one PyTorchService under a   *)
(* fair scheduler: a thread that can take its next step inside a call      *)
(* takes it (every load, preprocessing and inference ends), and a thread   *)
(* that waits for the lock gets it when the lock is free again and again.  *)

InitFair == IdleManager /\ IdleThreads /\ IdleBreaker /\ IdleService /\ IdleBatch /\ IdleRest

(* the steps thread t takes without waiting for another thread *)
FairStep(t) ==
    /\ \/ PredictValidate(t) \/ PredictLookup(t)
       \/ (\E load_ok \in BOOLEAN : PredictLoad(t, load_ok))
       \/ (\E ok \in BOOLEAN : PredictPreprocess(t, ok))
       \/ (\E pass_ok \in BOOLEAN, elapsed \in Elapsed : PredictInfer(t, pass_ok, elapsed))
       \/ PredictRelease(t) \/ ServiceClear(t) \/ ServiceClearRelease(t)
    /\ UNCHANGED <<mmVars, thVars, cbVars, bpVars, xVars>>

(* thread t gets the lock *)
FairAcquire(t) ==
    /\ PredictAcquire(t) \/ ServiceClearAcquire(t)
    /\ UNCHANGED <<mmVars, thVars, cbVars, bpVars, xVars>>

FairModelNames == {"", "m1"}

FrPredictCall ==
    /\ \E t \in Threads, model_name \in FairModelNames, input_ok \in BOOLEAN :
          PredictCall(t, model_name, input_ok)
    /\ UNCHANGED <<mmVars, thVars, cbVars, bpVars, xVars>>

NextFair ==
    \/ FrPredictCall \/ SvPredictAcquire \/ SvPredictValidate \/ SvPredictLookup
    \/ SvPredictLoad \/ SvPredictPreprocess \/ SvPredictInfer \/ SvPredictRelease
    \/ SvClearCall \/ SvClearAcquire \/ SvClear \/ SvClearRelease

SpecFair ==
    /\ InitFair /\ [][NextFair]_vars
    /\ \A t \in Threads : WF_vars(FairStep(t)) /\ SF_vars(FairAcquire(t))

(* C36. Lock release and progress: whenever no thread is inside predict or *)
(* clear_cache the service lock is free, whatever the outcomes of the      *)
(* calls before; and under the fair scheduler every thread that waits to   *)
(* enter predict enters it.                                                *)
C36_Progress ==
    /\ []((\A t \in Threads : ~InSection(t)) => _cache_lock = NoThread)
    /\ \A t \in Threads : (spc[t] = "p_acquire") ~> (spc[t] = "p_validate")

C36_Witness ==
    \E t1, t2 \in Threads :
        /\ spc[t1] = "p_acquire" /\ sloc[t1].after_failures >= 1
        /\ spc[t2] = "p_release" /\ sloc[t2].outcome \in TransientFailures
        /\ _cache_lock = t2

----------------------------------------------------------------------------
(* outcomes of predict that come after the model was found or loaded *)
LaterFailures == {"preprocess_error", "inference_error", "TimeoutError"}

(* C37. Model stays cached after a failed prediction: a predict call that  *)
(* missed, loaded the model and then failed in preprocessing, inference or *)
(* the timeout check ends with the loaded model in the cache under its     *)
(* name; entries leave the cache only through clear_cache, so the lookup   *)
(* of the next predict for that name is a hit that loads nothing; and a    *)
(* load that fails adds no entry.                                          *)
C37_CachedAfterFailure ==
    [][ \A t \in Threads :
          /\ (spc[t] = "p_release" /\ sloc[t].load /\ sloc[t].outcome \in LaterFailures)
                => /\ sloc[t].model_name \in DOMAIN svc_cache'
                   /\ svc_cache'[sloc[t].model_name] = sloc[t].model
                   /\ sloc[t].model # NoHandle
          /\ (spc[t] = "p_load" /\ spc'[t] = "p_release")
                => /\ sloc'[t].outcome = "load_error"
                   /\ svc_cache' = svc_cache
                   /\ sloc[t].model_name \notin DOMAIN svc_cache'
          /\ (spc[t] = "p_load" /\ spc'[t] = "p_preprocess")
                => /\ sloc'[t].load /\ svc_loads' = svc_loads + 1
                   /\ sloc[t].model_name \in DOMAIN svc_cache'
                   /\ svc_cache'[sloc[t].model_name] = sloc'[t].model
          /\ (spc[t] = "p_lookup" /\ sloc[t].model_name \in DOMAIN svc_cache)
                => /\ spc'[t] \in {"p_lookup", "p_preprocess"}
                   /\ spc'[t] = "p_preprocess"
                         => /\ sloc'[t].hit /\ ~sloc'[t].load
                            /\ sloc'[t].model = svc_cache[sloc[t].model_name]
                            /\ svc_loads' = svc_loads
          /\ (\A u \in Threads : spc[u] # "c_clear")
                => \A k \in DOMAIN svc_cache :
                      k \in DOMAIN svc_cache' /\ svc_cache'[k] = svc_cache[k]
      ]_vars

C37_Witness ==
    \E t, u \in Threads :
        /\ spc[t] = "p_release" /\ sloc[t].load /\ sloc[t].outcome = "TimeoutError"
        /\ svc_cache[sloc[t].model_name] = sloc[t].model
        /\ spc[u] = "p_acquire" /\ sloc[u].model_name = sloc[t].model_name

----------------------------------------------------------------------------
(* One caller of PyTorchService.predict asking for many models *)

MODEL_CACHE_SIZE == 5

ManyModelNames == {"m1", "m2", "m3", "m4", "m5", "m6"}

InitResident == IdleManager /\ IdleThreads /\ IdleBreaker /\ IdleService /\ IdleBatch /\ IdleRest

RsPredict ==
    /\ \E model_name \in ManyModelNames, load_ok, preprocess_ok, pass_ok \in BOOLEAN :
          LET r == PredictOnce(svc_cache, model_name, {"text"},
                               {"model_path", "model_config"},
                               load_ok, preprocess_ok, pass_ok, 0)
          IN /\ LockFree(_cache_lock)
             /\ svc_loads + r.loaded <= MaxResident
             /\ svc_cache' = r.cache
             /\ svc_loads' = svc_loads + r.loaded
    /\ UNCHANGED <<_cache_lock, spc, sloc, predict_failures>>
    /\ UNCHANGED <<mmVars, thVars, cbVars, bpVars, xVars>>

NextResident == RsPredict

SpecResident == InitResident /\ [][NextResident]_vars

(* C38. Bounded inference-service cache, as claimed: whatever the predict  *)
(* calls, the service cache never holds more than MODEL_CACHE_SIZE models. *)
C38_BoundedCache == Cardinality(DOMAIN svc_cache) <= MODEL_CACHE_SIZE

----------------------------------------------------------------------------
(* C39. A rejected call leaves the breaker unchanged: a call the breaker   *)
(* fails fast does not invoke the wrapped operation and changes neither    *)
(* the failure counter nor the last-failure timestamp, which stays the     *)
(* start of the last call that really failed; so however many calls are    *)
(* rejected, the breaker stays open no longer than reset_timeout after     *)
(* that failure.                                                           *)
C39_RejectedCall ==
    [][ /\ (bcall'.outcome = "rejected" /\ now' = now)
            => /\ ~bcall'.invoked
               /\ failures' = failures
               /\ last_failure_time' = last_failure_time
               /\ failure_log' = failure_log
        /\ bcall'.outcome = "rejected"
            => /\ last_failure_time' = bcall'.last.start
               /\ bcall'.at - bcall'.last.start < reset_timeout
      ]_vars

C39_Witness ==
    /\ bcall.outcome = "rejected"
    /\ bcall.at > bcall.last.start
    /\ bcall.at - bcall.last.start = reset_timeout - 1
    /\ bcall.last_failure_before = last_failure_time

====
